---- MODULE Spec2Model ----
(***************************************************************************)
(* Project Oasis: the weighted spatial-partitioning core                   *)
(* (backend/utils.py: calculate_weighted_polygons and its helpers) and the *)
(* persistence adapter around it (recalculate_service_areas).              *)
(*                                                                         *)
(* Numbers.  The code computes in float64; the model computes the same     *)
(* quantities exactly.  Planar coordinates are integers in units of        *)
(* 1/Scale(resolution), so that the padded linspace lattice is integral.   *)
(* current_weights is kept as its DampingInv-th power, a rational of       *)
(* arbitrary-size naturals times a power of the pinned constant 1e-9, so   *)
(* that factor *= correction ** damping_factor is exact for                *)
(* damping_factor = 1/DampingInv.  Site indices are 0-based as in Python.  *)
(***************************************************************************)
EXTENDS Integers, Sequences, FiniteSets, TLC

\* ------------------------------------------------------------------ bounds
MaxSites == 2
MaxResolution == 4
MaxIterations == 2
\* finest lattice of the calls whose regions are followed ring by ring
ShapeResolution == 7
\* longest ring given to _lonlat_list_to_geometry on its own
MaxRingLen == 4
\* attendance requests served at the same time
MaxRequests == 3
\* largest stored capacity at which a further update-weight request is followed
MaxCapacity == 4
\* passes allowed to the calls that are followed over a long run
LongRun == 160
\* passes allowed to, and finest lattice of, the calls of the two-site scenario
ScenarioPasses == 24
ScenarioResolution == 6
\* the lattice of the service's call (the code passes resolution=200)
ServiceResolution == 5

\* ------------------------------------------------------- program constants
\* tolerance = 0.005 = ToleranceNum / ToleranceDen
ToleranceNum == 5
ToleranceDen == 1000
\* damping_factor = 0.2 = 1 / DampingInv
DampingInv == 5
\* padding = extent * 0.05 = extent / PaddingInv
PaddingInv == 20
\* the pinned factor 1e-9 = 10 ^ (-EpsilonDigits)
EpsilonDigits == 9

\* ------------------------------------------------- arbitrary-size naturals
\* A natural is the little-endian sequence of its base-10000 digits, <<>> = 0.
RECURSIVE BFrom(_)
BFrom(n) == IF n = 0 THEN <<>> ELSE <<n % 10000>> \o BFrom(n \div 10000)

\* Schoolbook product, column by column.  A column sums at most
\* Min(Len(a), Len(b)) digit products below 10^8 each, which stays below 2^31
\* for operands of up to 20 digits on one side.
BMul(a, b) ==
    IF a = <<>> \/ b = <<>> THEN <<>> ELSE
    LET n == Len(a) + Len(b) - 1
        RECURSIVE Col(_, _, _)
        Col(k, c, acc) ==
            IF k > n THEN acc \o BFrom(c)
            ELSE LET lo == IF k - Len(b) + 1 > 1 THEN k - Len(b) + 1 ELSE 1
                     hi == IF k < Len(a) THEN k ELSE Len(a)
                     RECURSIVE S(_, _)
                     S(j, t) == IF j > hi THEN t ELSE S(j + 1, t + a[j] * b[k + 1 - j])
                     v == S(lo, c)
                 IN  Col(k + 1, v \div 10000, Append(acc, v % 10000))
    IN  Col(1, 0, <<>>)

RECURSIVE BLessFrom(_, _, _)
BLessFrom(a, b, k) ==
    IF k = 0 THEN FALSE
    ELSE IF a[k] # b[k] THEN a[k] < b[k]
    ELSE BLessFrom(a, b, k - 1)

BLess(a, b) == IF Len(a) # Len(b) THEN Len(a) < Len(b) ELSE BLessFrom(a, b, Len(a))

RECURSIVE BPow(_, _)
BPow(a, e) == IF e = 0 THEN <<1>>
              ELSE IF e % 2 = 0 THEN LET h == BPow(a, e \div 2) IN BMul(h, h)
              ELSE BMul(a, BPow(a, e - 1))

\* a * 10^e
RECURSIVE BTimesTenTo(_, _)
BTimesTenTo(a, e) ==
    IF a = <<>> \/ e = 0 THEN a
    ELSE IF e >= 4 THEN <<0>> \o BTimesTenTo(a, e - 4)
    ELSE BTimesTenTo(BMul(a, <<10>>), e - 1)


\* ------------------------------------------------------------------ inputs
\* Caller-assigned identifiers (recalculate_service_areas passes str(well.id)).
\* They are numbers here, none of them a list index.
SiteIds == <<101, 102, 103, 104>>

\* Candidate site layouts (lon, lat), of which a call takes a prefix: sites
\* apart from each other (the first two mirror images about the middle of the
\* boundary), and sites that share a position (the middle, a lattice point of
\* every odd resolution).
SpreadLayout == <<<<0, 0>>, <<2, 0>>, <<1, 1>>, <<1, 2>>>>
SharedLayout == <<<<1, 1>>, <<1, 1>>, <<0, 0>>, <<2, 2>>>>
Layouts == {SpreadLayout, SharedLayout}

\* Candidate site weights: negative, zero, and two different positive ones.
Weights == {-1, 0, 1, 3}

\* Candidate boundary rings (lon, lat), first vertex repeated as last:
\* a square, a triangle, and a ring that encloses no area.
SquareRing == <<<<0, 0>>, <<2, 0>>, <<2, 2>>, <<0, 2>>, <<0, 0>>>>
TriangleRing == <<<<0, 0>>, <<2, 0>>, <<1, 2>>, <<0, 0>>>>
FlatRing == <<<<0, 0>>, <<2, 0>>, <<0, 0>>>>
Boundaries == {SquareRing, TriangleRing, FlatRing}
\* a square with room for sites strictly inside it
WideSquareRing == <<<<0, 0>>, <<4, 0>>, <<4, 4>>, <<0, 4>>, <<0, 0>>>>

Resolutions == 2..MaxResolution
\* max_iterations: none, one, and the most passes the model follows
IterationLimits == {0, 1, MaxIterations}

VARIABLES
    \* arguments of calculate_weighted_polygons
    point_ids, points_lon_lat, point_weights, boundary_lon_lat,
    resolution, max_iterations, verbose,
    \* position in the call, and the exception that ended it ("" while none)
    pc, error,
    \* locals of calculate_weighted_polygons
    boundary_xy, points_xy, vector_boundaries, output_polygons,
    \* locals of _compute_weighted_areas
    mask, current_weights, i, assignments, max_error, assignment_grid,
    \* what the call printed
    stdout,
    \* history: stages that have run, passes executed, factors the last pass used
    work, passes, pass_weights,
    \* the database: the row of the area, and the committed rows of wells
    area_row, wells_db,
    \* the session's Well objects (what the request sees and has changed)
    wells,
    \* recalculate_service_areas: position ("none" in a direct call of the core),
    \* locals, and the exception it re-raised ("" while none)
    svc_pc, all_wells_to_calculate, polygon_map, svc_error,
    \* history: commits and rollbacks of the session
    commits, rollbacks,
    \* the HTTP request being served: its view function ("none" outside a
    \* request) and the status of the response (0 while there is none)
    route, http_status,
    \* concurrent calls of the core: the frames of the calls that are not running
    \* (arguments, locals, position), the call the variables above belong to
    \* (0 when there is one call only), and history: a call was switched out
    \* between its first and its last statement
    frames, running, preempted,
    \* calls of _lonlat_list_to_geometry on one list object: the ring first
    \* passed, the list as it is now, and the texts returned so far
    given_ring, list_object, wkts,
    \* submit_attendance: the well's row exists, its committed current_load, the
    \* requests being served (position, the current_load of the request's
    \* session object, status of the response), and history: current_load
    \* before the requests
    well_exists, load_db, requests, load_before,
    \* update_well_weight: the JSON body of the request, the row the URL names
    \* (0: no such row), the local score once converted, the position in the
    \* view ("none" outside it), and history: the wells' rows before the request
    data, well_id, score, weight_pc, wells_before,
    \* requests for one area served at the same time, each by a session of its
    \* own: the view, its score, its position, what it has read, its response
    sessions

service == <<area_row, wells_db, wells, svc_pc, all_wells_to_calculate, polygon_map,
             svc_error, commits, rollbacks>>
args == <<point_ids, points_lon_lat, point_weights, boundary_lon_lat,
          resolution, max_iterations, verbose>>
locals == <<boundary_xy, points_xy, vector_boundaries, output_polygons,
            mask, current_weights, i, assignments, max_error, assignment_grid>>
http == <<route, http_status>>
calls == <<frames, running, preempted>>
geometry == <<given_ring, list_object, wkts>>
attendance == <<well_exists, load_db, requests, load_before>>
weight == <<data, well_id, score, weight_pc, wells_before>>
race == <<sessions>>
routes == <<http, calls, geometry, attendance, weight, race>>
vars == <<args, pc, error, locals, stdout, work, passes, pass_weights, service, routes>>

\* ----------------------------------------------------------------- helpers
Max(a, b) == IF a > b THEN a ELSE b
Min(a, b) == IF a < b THEN a ELSE b
Abs(a) == IF a < 0 THEN 0 - a ELSE a

RECURSIVE SumOver(_, _)
\* sum of f over the finite set S of its domain
SumOver(f, S) == IF S = {} THEN 0
                 ELSE LET x == CHOOSE y \in S : TRUE IN f[x] + SumOver(f, S \ {x})

\* 0-based indexing into an argument list
At(seq, k) == seq[k + 1]
Indices(seq) == 0..(Len(seq) - 1)

\* ------------------------------------------------------ CoordinateProjector
\* The pyproj transformers EPSG:4326 <-> ESRI:54034 are library code; they are
\* modelled as a fixed pointwise, invertible, axis-wise scaling.
ToXY(p) == <<2 * p[1], 3 * p[2]>>
ToLonLat(p) == <<p[1] \div 2, p[2] \div 3>>
\* list(transformer.itransform(points))
AllToXY(pts) == [k \in 1..Len(pts) |-> ToXY(pts[k])]
AllToLonLat(pts) == [k \in 1..Len(pts) |-> ToLonLat(pts[k])]

\* ----------------------------------------------------------- GridRasterizer
\* Planar coordinates inside _compute_weighted_areas are held in units of
\* 1/Scale(res): linspace(min - pad, max + pad, res)[k] with
\* pad = (max - min)/PaddingInv is then the integer GridCoord.
Scale(res) == PaddingInv * (res - 1)

AxisMin(pts, axis) == CHOOSE m \in {pts[k][axis] : k \in 1..Len(pts)} :
                          \A k \in 1..Len(pts) : m <= pts[k][axis]
AxisMax(pts, axis) == CHOOSE m \in {pts[k][axis] : k \in 1..Len(pts)} :
                          \A k \in 1..Len(pts) : m >= pts[k][axis]

\* Faulty variant of GridCoord: linspace(min, max, res), the padding left out.
GridCoordUnpadded(bxy, axis, res, k) ==
    LET lo == AxisMin(bxy, axis)
        ext == AxisMax(bxy, axis) - lo
    IN  Scale(res) * lo + PaddingInv * k * ext

GridCoord(bxy, axis, res, k) ==
    LET lo == AxisMin(bxy, axis)
        ext == AxisMax(bxy, axis) - lo
    IN  Scale(res) * lo - (res - 1) * ext + (PaddingInv + 2) * k * ext

\* Path(boundary_xy).contains_points: even-odd crossing test of the ray to +x.
Crosses(a, b, p) ==
    /\ (a[2] > p[2]) # (b[2] > p[2])
    /\ IF b[2] > a[2]
       THEN (p[1] - a[1]) * (b[2] - a[2]) < (p[2] - a[2]) * (b[1] - a[1])
       ELSE (p[1] - a[1]) * (b[2] - a[2]) > (p[2] - a[2]) * (b[1] - a[1])

ContainsPoint(bxy, res, p) ==
    LET v(k) == <<Scale(res) * bxy[k][1], Scale(res) * bxy[k][2]>>
        nxt(k) == IF k = Len(bxy) THEN 1 ELSE k + 1
        crossings == {k \in 1..Len(bxy) : Crosses(v(k), v(nxt(k)), p)}
    IN  Cardinality(crossings) % 2 = 1

\* Cells are <<row, col>>: row indexes y, col indexes x (np.meshgrid(x, y)).
Cells(res) == (0..(res - 1)) \X (0..(res - 1))
CellPoint(bxy, res, cell) ==
    <<GridCoord(bxy, 1, res, cell[2]), GridCoord(bxy, 2, res, cell[1])>>
Mask(bxy, res) == {cell \in Cells(res) : ContainsPoint(bxy, res, CellPoint(bxy, res, cell))}


\* ------------------------------------------------- WeightedAssignmentSolver
TargetWeightsSafe(w) == [k \in 1..Len(w) |-> Max(w[k], 0)]

\* Faulty variant of TotalWeight: the weights are summed without the clamp.
TotalWeightUnclamped(w) == SumOver(w, 1..Len(w))

TotalWeight(w) == SumOver(TargetWeightsSafe(w), 1..Len(w))

\* Faulty variant of TargetProportions: the weights are divided as given, the
\* clamped ones only summed.
TargetProportionsOfRawWeights(w) ==
    [j \in Indices(w) |-> [num |-> At(w, j), den |-> TotalWeight(w)]]

\* line 129: target_weights_safe / total_weight, each proportion a fraction
TargetProportions(w) ==
    [j \in Indices(w) |-> [num |-> At(TargetWeightsSafe(w), j), den |-> TotalWeight(w)]]

\* line 130: target_proportions * n_pixels_inside
TargetPixelCounts(w, nInside) ==
    [j \in Indices(w) |-> [num |-> TargetProportions(w)[j].num * nInside,
                           den |-> TargetProportions(w)[j].den]]

\* A factor current_weights[j] is held as its DampingInv-th power
\* (num / den) * 10^(-EpsilonDigits * DampingInv * eps).
OneFactor == [num |-> <<1>>, den |-> <<1>>, eps |-> 0]
PinnedFactor == [num |-> <<1>>, den |-> <<1>>, eps |-> 1]

\* np.ones(n_points); current_weights[target_weights <= 0] = 1e-9
InitialWeights(w) ==
    [j \in Indices(w) |-> IF At(w, j) <= 0 THEN PinnedFactor ELSE OneFactor]

\* cdist: squared Euclidean distance from site j to the lattice point of cell
Dist2(pxy, bxy, res, j, cell) ==
    LET p == CellPoint(bxy, res, cell)
        dx == Scale(res) * At(pxy, j)[1] - p[1]
        dy == Scale(res) * At(pxy, j)[2] - p[2]
    IN  dx * dx + dy * dy

\* line 139: the weighted distance dist / factor of one site to one inside
\* point, held as the squared distance and the factor it is divided by
WeightedDist(f, d2) == [d2 |-> d2, f |-> f]

\* x < y for weighted distances.  Under equal factors the distances decide.
\* Otherwise both sides are raised to the power 2 * DampingInv, where
\* (dist / factor) ^ (2 * DampingInv) is the fraction
\* (d2 ^ DampingInv * den^2 / num^2) * 10 ^ (2 * EpsilonDigits * DampingInv * eps),
\* and the fractions are compared by cross-multiplication.
WeightedLess(x, y) ==
    IF x.f = y.f THEN x.d2 < y.d2
    ELSE LET shift(k) == 2 * EpsilonDigits * DampingInv * k
             xa == BMul(BPow(BFrom(x.d2), DampingInv), BMul(x.f.den, x.f.den))
             ya == BMul(BPow(BFrom(y.d2), DampingInv), BMul(y.f.den, y.f.den))
             lhs == BMul(xa, BMul(y.f.num, y.f.num))
             rhs == BMul(ya, BMul(x.f.num, x.f.num))
         IN  IF x.f.eps >= y.f.eps
             THEN BLess(BTimesTenTo(lhs, shift(x.f.eps - y.f.eps)), rhs)
             ELSE BLess(lhs, BTimesTenTo(rhs, shift(y.f.eps - x.f.eps)))

\* Faulty variant of ArgMin: the last index that attains the minimum.
ArgMinLast(wd, n) ==
    LET RECURSIVE Scan(_, _)
        Scan(j, best) == IF j >= n THEN best
                         ELSE Scan(j + 1, IF WeightedLess(At(wd, best), At(wd, j)) THEN best ELSE j)
    IN  Scan(1, 0)

\* np.argmin over the sites: the first index that attains the minimum
\* (wd is the column of weighted distances of one inside point, a sequence)
ArgMin(wd, n) ==
    LET RECURSIVE Scan(_, _)
        Scan(j, best) == IF j >= n THEN best
                         ELSE Scan(j + 1, IF WeightedLess(At(wd, j), At(wd, best)) THEN j ELSE best)
    IN  Scan(1, 0)

\* lines 138-139: the weighted distances of one inside point to the sites j..n-1
RECURSIVE WeightedDists(_, _, _, _, _, _)
WeightedDists(pxy, bxy, res, cw, cell, j) ==
    IF j >= Len(pxy) THEN << >>
    ELSE <<WeightedDist(cw[j], Dist2(pxy, bxy, res, j, cell))>>
         \o WeightedDists(pxy, bxy, res, cw, cell, j + 1)

\* lines 138-140: one assignment of every inside point
Assign(pxy, bxy, res, msk, cw) ==
    [cell \in msk |-> ArgMin(WeightedDists(pxy, bxy, res, cw, cell, 0), Len(pxy))]

\* np.bincount(assignments, minlength=n_points)
PixelCounts(a, n) == [j \in 0..(n - 1) |-> Cardinality({cell \in DOMAIN a : a[cell] = j})]

\* max |actual - target| / n_pixels_inside as the fraction num / den, with
\* target_pixel_counts[j] = W_j * n_inside / total_weight
MaxError(counts, w, nInside) ==
    LET tw == TotalWeight(w)
        dev(j) == Abs(counts[j] * tw - TargetPixelCounts(w, nInside)[j].num)
        worst == CHOOSE j \in DOMAIN counts : \A k \in DOMAIN counts : dev(j) >= dev(k)
    IN  [num |-> dev(worst), den |-> tw * nInside]

\* Faulty variant of BelowTolerance: the tolerance read as 0.5 instead of 0.005.
BelowToleranceLoose(err) == err.num * 2 < err.den

\* max_error < tolerance
BelowTolerance(err) == err.num * ToleranceDen < ToleranceNum * err.den

RECURSIVE Gcd(_, _)
Gcd(a, b) == IF b = 0 THEN a ELSE Gcd(b, a % b)

\* Faulty variant of UpdateWeights: line 150 is left out, so that a site of
\* weight <= 0 keeps the factor its correction gives it.
UpdateWeightsWithoutPin(cw, counts, w, nInside) ==
    LET tn(j) == TargetPixelCounts(w, nInside)[j].num
        td(j) == TargetPixelCounts(w, nInside)[j].den * Max(counts[j], 1)
        g(j) == Gcd(tn(j), td(j))
    IN  [j \in DOMAIN cw |->
            [num |-> BMul(cw[j].num, BFrom(tn(j) \div g(j))),
             den |-> BMul(cw[j].den, BFrom(td(j) \div g(j))),
             eps |-> cw[j].eps]]

\* lines 147-150: current_weights *= (target / max(actual, 1)) ** damping_factor,
\* then the sites of weight <= 0 are pinned again
UpdateWeights(cw, counts, w, nInside) ==
    LET tn(j) == TargetPixelCounts(w, nInside)[j].num
        td(j) == TargetPixelCounts(w, nInside)[j].den * Max(counts[j], 1)
        g(j) == Gcd(tn(j), td(j))
    IN  [j \in DOMAIN cw |->
            IF At(w, j) <= 0 THEN PinnedFactor
            ELSE [num |-> BMul(cw[j].num, BFrom(tn(j) \div g(j))),
                  den |-> BMul(cw[j].den, BFrom(td(j) \div g(j))),
                  eps |-> cw[j].eps]]

\* lines 127, 153-155: np.full((resolution, resolution), -1.0), then the
\* inside cells take their assignment
Unassigned == -1
EmptyGrid(res) == [cell \in Cells(res) |-> Unassigned]

\* Faulty variant of AssignmentGrid: the grid starts from np.zeros, so that the
\* cells outside the mask read as site 0.
AssignmentGridFromZeros(res, msk, a) ==
    [cell \in Cells(res) |-> IF cell \in msk THEN a[cell] ELSE 0]

AssignmentGrid(res, msk, a) ==
    [cell \in Cells(res) |-> IF cell \in msk THEN a[cell] ELSE Unassigned]


\* --------------------------------------------------------- ContourVectorizer
\* Pixel coordinates <<row, col>> are doubled, so that the half-pixel
\* crossings of the 0.5 level of a 0/1 mask are integers.
\*
\* skimage.measure.find_contours(region_mask, level=0.5) is library code:
\* marching squares over the 2x2 squares in row-major order (the sixteen
\* cases, fully_connected='low'), then the assembly of the segments.
SquareSegments(region, r0, c0) ==
    LET in(r, c) == <<r, c>> \in region
        case == (IF in(r0, c0) THEN 1 ELSE 0) + (IF in(r0, c0 + 1) THEN 2 ELSE 0)
                + (IF in(r0 + 1, c0) THEN 4 ELSE 0) + (IF in(r0 + 1, c0 + 1) THEN 8 ELSE 0)
        top == <<2 * r0, 2 * c0 + 1>>
        bottom == <<2 * r0 + 2, 2 * c0 + 1>>
        left == <<2 * r0 + 1, 2 * c0>>
        right == <<2 * r0 + 1, 2 * c0 + 2>>
    IN  CASE case = 1 -> << <<top, left>> >>
          [] case = 2 -> << <<right, top>> >>
          [] case = 3 -> << <<right, left>> >>
          [] case = 4 -> << <<left, bottom>> >>
          [] case = 5 -> << <<top, bottom>> >>
          [] case = 6 -> << <<right, top>>, <<left, bottom>> >>
          [] case = 7 -> << <<right, bottom>> >>
          [] case = 8 -> << <<bottom, right>> >>
          [] case = 9 -> << <<top, left>>, <<bottom, right>> >>
          [] case = 10 -> << <<bottom, top>> >>
          [] case = 11 -> << <<bottom, left>> >>
          [] case = 12 -> << <<left, right>> >>
          [] case = 13 -> << <<top, right>> >>
          [] case = 14 -> << <<left, top>> >>
          [] OTHER -> << >>

ContourSegments(region, res) ==
    LET RECURSIVE From(_)
        From(k) == IF k >= (res - 1) * (res - 1) THEN << >>
                   ELSE SquareSegments(region, k \div (res - 1), k % (res - 1)) \o From(k + 1)
    IN  From(0)

RemoveAt(seq, k) == SubSeq(seq, 1, k - 1) \o SubSeq(seq, k + 1, Len(seq))

\* One step of _assemble_contours.  cs holds the contours in creation order;
\* a contour is open while its ends differ (starts/ends hold the open ones).
AssembleStep(cs, seg) ==
    LET from == seg[1]
        to == seg[2]
        open(k) == cs[k][1] # cs[k][Len(cs[k])]
        tails == {k \in 1..Len(cs) : open(k) /\ cs[k][1] = to}
        heads == {k \in 1..Len(cs) : open(k) /\ cs[k][Len(cs[k])] = from}
        t == CHOOSE k \in tails : TRUE
        h == CHOOSE k \in heads : TRUE
    IN  IF from = to THEN cs
        ELSE IF tails # {} /\ heads # {} THEN
            IF t = h THEN [cs EXCEPT ![h] = Append(cs[h], to)]
            ELSE IF t > h THEN RemoveAt([cs EXCEPT ![h] = cs[h] \o cs[t]], t)
            ELSE RemoveAt([cs EXCEPT ![t] = cs[h] \o cs[t]], h)
        ELSE IF tails = {} /\ heads = {} THEN Append(cs, <<from, to>>)
        ELSE IF heads = {} THEN [cs EXCEPT ![t] = <<from>> \o cs[t]]
        ELSE [cs EXCEPT ![h] = Append(cs[h], to)]

RECURSIVE AssembleContours(_, _)
AssembleContours(cs, segs) ==
    IF segs = << >> THEN cs
    ELSE AssembleContours(AssembleStep(cs, Head(segs)), Tail(segs))

FindContours(region, res) == AssembleContours(<< >>, ContourSegments(region, res))

\* skimage.measure.approximate_polygon (Douglas-Peucker), library code.
\* Distances are compared as squares scaled by the squared segment length;
\* tol2 is the tolerance in doubled pixels.
SegmentDist(coords, start, end, k) ==
    LET dr == coords[end][1] - coords[start][1]
        dc == coords[end][2] - coords[start][2]
        dr0 == coords[k][1] - coords[start][1]
        dc0 == coords[k][2] - coords[start][2]
        dr1 == coords[k][1] - coords[end][1]
        dc1 == coords[k][2] - coords[end][2]
        len2 == dr * dr + dc * dc
        perp == dr0 * dr + dc0 * dc > 0 /\ 0 - dr1 * dr - dc1 * dc > 0
        cross == dr0 * dc - dc0 * dr
    IN  IF perp THEN [num |-> cross * cross, den |-> len2]
        ELSE [num |-> Min(dr0 * dr0 + dc0 * dc0, dr1 * dr1 + dc1 * dc1), den |-> 1]

RECURSIVE KeptPoints(_, _, _, _)
KeptPoints(coords, start, end, tol2) ==
    LET between == (start + 1)..(end - 1)
        d(k) == SegmentDist(coords, start, end, k)
        more(x, y) == x.num * y.den > y.num * x.den
        far == {k \in between : d(k).num > tol2 * tol2 * d(k).den}
        \* np.argmax: the first index that attains the maximum
        split == CHOOSE k \in between :
                    /\ \A m \in between : ~more(d(m), d(k))
                    /\ \A m \in between : m < k => more(d(k), d(m))
    IN  IF far = {} THEN {start, end}
        ELSE KeptPoints(coords, start, split, tol2) \cup KeptPoints(coords, split, end, tol2)

RECURSIVE Select(_, _, _)
Select(coords, keep, k) ==
    IF k > Len(coords) THEN << >>
    ELSE (IF k \in keep THEN <<coords[k]>> ELSE << >>) \o Select(coords, keep, k + 1)

ApproximatePolygon(coords, tol2) ==
    IF tol2 <= 0 THEN coords
    ELSE Select(coords, KeptPoints(coords, 1, Len(coords), tol2), 1)

\* np.interp of a (doubled) pixel coordinate against a grid axis, in 1/Scale
InterpAxis(bxy, axis, res, k2) ==
    LET lo == AxisMin(bxy, axis)
        ext == AxisMax(bxy, axis) - lo
    IN  Scale(res) * lo - (res - 1) * ext + ((PaddingInv + 2) \div 2) * k2 * ext

\* simplification_tolerance = 1.5 pixels, in doubled pixels
SimplificationTolerance == 3

\* _get_vector_boundaries: for each site the planar rings of its region
GetVectorBoundaries(grid, bxy, res, n) ==
    [j \in 0..(n - 1) |->
        LET contours_raw == FindContours({cell \in DOMAIN grid : grid[cell] = j}, res)
            Ring(contour) ==
                LET simplified == ApproximatePolygon(contour, SimplificationTolerance)
                IN  [k \in 1..Len(simplified) |->
                        <<InterpAxis(bxy, 1, res, simplified[k][2]),
                          InterpAxis(bxy, 2, res, simplified[k][1])>>]
        IN  [c \in 1..Len(contours_raw) |-> Ring(contours_raw[c])]]


\* ------------------------------------------------- calculate_weighted_polygons
NoFactors == << >>
NoAssignments == << >>
NoError == [num |-> 0, den |-> 0]
Unbound == -1

ValidationError == "ValueError: Input lists must all have the same length."
EmptyRegionError == "ValueError: Bounding shape has no area or grid is too coarse."
UnboundLocalError == "UnboundLocalError: local variable 'i' referenced before assignment"

ZeroWeightsWarning == "Warning: All target weights are zero."
ConvergedMessage == "Convergence reached"
MaxIterationsWarning == "Max iterations reached"

InitCall ==
    /\ error = ""
    /\ boundary_xy = << >>
    /\ points_xy = << >>
    /\ vector_boundaries = << >>
    /\ output_polygons = << >>
    /\ mask = {}
    /\ current_weights = NoFactors
    /\ i = Unbound
    /\ assignments = NoAssignments
    /\ max_error = NoError
    /\ assignment_grid = << >>
    /\ stdout = << >>
    /\ work = {}
    /\ passes = 0
    /\ pass_weights = NoFactors

\* A direct call of the core: no database, no service function.
NoService ==
    /\ area_row = << >>
    /\ wells_db = << >>
    /\ wells = << >>
    /\ svc_pc = "none"
    /\ all_wells_to_calculate = << >>
    /\ polygon_map = << >>
    /\ svc_error = ""
    /\ commits = 0
    /\ rollbacks = 0

\* No HTTP request is being served.
NoRoutes ==
    /\ route = "none"
    /\ http_status = 0

\* _lonlat_list_to_geometry is not followed on its own.
NoGeometry ==
    /\ given_ring = << >>
    /\ list_object = << >>
    /\ wkts = << >>

\* No attendance is being submitted.
NoAttendance ==
    /\ well_exists = FALSE
    /\ load_db = 0
    /\ requests = << >>
    /\ load_before = 0

\* No requests are served side by side.
NoRace == sessions = << >>

\* No weight update is being served.
NoWeightUpdate ==
    /\ data = << >>
    /\ well_id = 0
    /\ score = << >>
    /\ weight_pc = "none"
    /\ wells_before = << >>

\* One call of the core only.
NoCalls ==
    /\ frames = << >>
    /\ running = 0
    /\ preempted = FALSE

\* The argument lists: every combination of equal lengths, and, for unequal
\* lengths, one representative content.
Init ==
    /\ \E nI \in 1..MaxSites, nP \in 1..MaxSites, nW \in 1..MaxSites :
          /\ point_ids = SubSeq(SiteIds, 1, nI)
          /\ IF nI = nP /\ nP = nW
             THEN /\ \E layout \in Layouts : points_lon_lat = SubSeq(layout, 1, nP)
                  /\ point_weights \in [1..nW -> Weights]
             ELSE /\ points_lon_lat = SubSeq(SpreadLayout, 1, nP)
                  /\ point_weights = [k \in 1..nW |-> 1]
    /\ boundary_lon_lat \in Boundaries
    /\ resolution \in Resolutions
    /\ max_iterations \in IterationLimits
    /\ verbose \in BOOLEAN
    /\ pc = "validate"
    /\ InitCall
    /\ NoService
    /\ NoRoutes
    /\ NoCalls
    /\ NoGeometry
    /\ NoRace
    /\ NoAttendance
    /\ NoWeightUpdate

Raise(e) ==
    /\ pc' = "raised"
    /\ error' = e

\* Faulty variant of Validate: only point_ids and points_lon_lat are compared.
ValidateIdsAndPointsOnly ==
    /\ pc = "validate"
    /\ IF Len(point_ids) # Len(points_lon_lat)
       THEN Raise(ValidationError)
       ELSE pc' = "project" /\ error' = error
    /\ UNCHANGED <<routes, service, args, locals, stdout, work, passes, pass_weights>>

\* lines 205-207
Validate ==
    /\ pc = "validate"
    /\ IF ~(Len(point_ids) = Len(points_lon_lat) /\ Len(points_lon_lat) = Len(point_weights))
       THEN Raise(ValidationError)
       ELSE pc' = "project" /\ error' = error
    /\ UNCHANGED <<routes, service, args, locals, stdout, work, passes, pass_weights>>

\* lines 208-214
Project ==
    /\ pc = "project"
    /\ boundary_xy' = AllToXY(boundary_lon_lat)
    /\ points_xy' = AllToXY(points_lon_lat)
    /\ work' = work \cup {"project"}
    /\ pc' = "rasterize"
    /\ UNCHANGED <<routes, service, args, error, vector_boundaries, output_polygons, mask, current_weights,
                   i, assignments, max_error, assignment_grid, stdout, passes, pass_weights>>

\* Faulty variant of Rasterize: the zero-weight shortcut is taken before the
\* inside points are counted.
RasterizeShortcutFirst ==
    /\ pc = "rasterize"
    /\ mask' = Mask(boundary_xy, resolution)
    /\ work' = work \cup {"rasterize"}
    /\ IF TotalWeight(point_weights) # 0 /\ Cardinality(mask') = 0
       THEN Raise(EmptyRegionError)
       ELSE pc' = "weights" /\ error' = error
    /\ UNCHANGED <<routes, service, args, boundary_xy, points_xy, vector_boundaries, output_polygons,
                   current_weights, i, assignments, max_error, assignment_grid, stdout,
                   passes, pass_weights>>

\* lines 108-122
Rasterize ==
    /\ pc = "rasterize"
    /\ mask' = Mask(boundary_xy, resolution)
    /\ work' = work \cup {"rasterize"}
    /\ IF Cardinality(mask') = 0
       THEN Raise(EmptyRegionError)
       ELSE pc' = "weights" /\ error' = error
    /\ UNCHANGED <<routes, service, args, boundary_xy, points_xy, vector_boundaries, output_polygons,
                   current_weights, i, assignments, max_error, assignment_grid, stdout,
                   passes, pass_weights>>

\* lines 123-133
CheckWeights ==
    /\ pc = "weights"
    /\ IF TotalWeight(point_weights) = 0
       THEN /\ stdout' = IF verbose THEN Append(stdout, ZeroWeightsWarning) ELSE stdout
            /\ assignment_grid' = EmptyGrid(resolution)
            /\ current_weights' = current_weights
            /\ pc' = "vectorize"
       ELSE /\ current_weights' = InitialWeights(point_weights)
            /\ UNCHANGED <<stdout, assignment_grid>>
            /\ pc' = "loop"
    /\ UNCHANGED <<routes, service, args, error, boundary_xy, points_xy, vector_boundaries, output_polygons,
                   mask, i, assignments, max_error, work, passes, pass_weights>>

\* lines 137-150: one pass of the for loop
Pass ==
    /\ pc = "loop"
    /\ passes < max_iterations
    /\ assignments' = Assign(points_xy, boundary_xy, resolution, mask, current_weights)
    /\ max_error' = MaxError(PixelCounts(assignments', Len(points_xy)), point_weights,
                             Cardinality(mask))
    /\ i' = passes
    /\ pass_weights' = current_weights
    /\ IF BelowTolerance(max_error')
       THEN /\ stdout' = IF verbose THEN Append(stdout, ConvergedMessage) ELSE stdout
            /\ current_weights' = current_weights
            /\ pc' = "after_loop"
       ELSE /\ current_weights' =
                   UpdateWeights(current_weights, PixelCounts(assignments', Len(points_xy)),
                                 point_weights, Cardinality(mask))
            /\ stdout' = stdout
            /\ pc' = "loop"
    /\ passes' = passes + 1
    /\ work' = work \cup {"solve"}
    /\ UNCHANGED <<routes, service, args, error, boundary_xy, points_xy, vector_boundaries, output_polygons,
                   mask, assignment_grid>>

\* line 137: range(max_iterations) is exhausted
LoopExhausted ==
    /\ pc = "loop"
    /\ passes >= max_iterations
    /\ pc' = "after_loop"
    /\ UNCHANGED <<routes, service, args, error, locals, stdout, work, passes, pass_weights>>

\* Faulty variant of AfterLoop: the grid is filled from an assignment recomputed
\* with the factors as the last update left them.
AfterLoopRecomputed ==
    /\ pc = "after_loop"
    /\ IF i = Unbound
       THEN /\ Raise(UnboundLocalError)
            /\ UNCHANGED <<stdout, assignment_grid>>
       ELSE /\ stdout' = IF i = max_iterations - 1 /\ verbose
                         THEN Append(stdout, MaxIterationsWarning) ELSE stdout
            /\ assignment_grid' =
                  AssignmentGrid(resolution, mask,
                      Assign(points_xy, boundary_xy, resolution, mask, current_weights))
            /\ pc' = "vectorize"
            /\ error' = error
    /\ UNCHANGED <<routes, service, args, boundary_xy, points_xy, vector_boundaries, output_polygons, mask,
                   current_weights, i, assignments, max_error, work, passes, pass_weights>>

\* lines 151-156
AfterLoop ==
    /\ pc = "after_loop"
    /\ IF i = Unbound
       THEN /\ Raise(UnboundLocalError)
            /\ UNCHANGED <<stdout, assignment_grid>>
       ELSE /\ stdout' = IF i = max_iterations - 1 /\ verbose
                         THEN Append(stdout, MaxIterationsWarning) ELSE stdout
            /\ assignment_grid' = AssignmentGrid(resolution, mask, assignments)
            /\ pc' = "vectorize"
            /\ error' = error
    /\ UNCHANGED <<routes, service, args, boundary_xy, points_xy, vector_boundaries, output_polygons, mask,
                   current_weights, i, assignments, max_error, work, passes, pass_weights>>

\* lines 225-232
Vectorize ==
    /\ pc = "vectorize"
    /\ vector_boundaries' =
          GetVectorBoundaries(assignment_grid, boundary_xy, resolution, Len(point_ids))
    /\ work' = work \cup {"vectorize"}
    /\ pc' = "backproject"
    /\ UNCHANGED <<routes, service, args, error, boundary_xy, points_xy, output_polygons, mask, current_weights,
                   i, assignments, max_error, assignment_grid, stdout, passes, pass_weights>>

\* lines 234-243: output_polygons[i] = the rings of site i in (lon, lat),
\* for i, point_id in enumerate(point_ids)
OutputPolygons(ids, vb) ==
    [k \in Indices(ids) |-> [c \in 1..Len(vb[k]) |-> AllToLonLat(vb[k][c])]]

Return ==
    /\ pc = "backproject"
    /\ output_polygons' = OutputPolygons(point_ids, vector_boundaries)
    /\ pc' = "returned"
    /\ UNCHANGED <<routes, service, args, error, boundary_xy, points_xy, vector_boundaries, mask,
                   current_weights, i, assignments, max_error, assignment_grid, stdout,
                   work, passes, pass_weights>>

Next ==
    \/ Validate
    \/ Project
    \/ Rasterize
    \/ CheckWeights
    \/ Pass
    \/ LoopExhausted
    \/ AfterLoop
    \/ Vectorize
    \/ Return

Spec == Init /\ [][Next]_vars

\* Calls on finer lattices, where a region is large enough for its outline to
\* keep corners after simplification: one or two sites, positive weights.
InitShapes ==
    /\ \E n \in 1..2, layout \in Layouts :
          /\ point_ids = SubSeq(SiteIds, 1, n)
          /\ points_lon_lat = SubSeq(layout, 1, n)
          /\ point_weights \in [1..n -> {1, 3}]
    /\ boundary_lon_lat \in {SquareRing, TriangleRing}
    /\ resolution \in {ShapeResolution - 1, ShapeResolution}
    /\ max_iterations \in {1, MaxIterations}
    /\ verbose = FALSE
    /\ pc = "validate"
    /\ InitCall
    /\ NoService
    /\ NoRoutes
    /\ NoCalls
    /\ NoGeometry
    /\ NoRace
    /\ NoAttendance
    /\ NoWeightUpdate

SpecShapes == InitShapes /\ [][Next]_vars

\* Calls that are given many passes on the coarsest lattice that has a point
\* inside (one point, at the centre of the bounding box): two sites of equal
\* positive weight and a third of weight <= 0 that is not on that point.
LongRunLayouts ==
    { <<SpreadLayout[1], SpreadLayout[2], SpreadLayout[4]>>,
      <<SharedLayout[1], SharedLayout[2], SharedLayout[3]>> }

InitLongRun ==
    /\ point_ids = SubSeq(SiteIds, 1, 3)
    /\ points_lon_lat \in LongRunLayouts
    /\ point_weights \in {<<1, 1, 0>>, <<1, 1, -1>>}
    /\ boundary_lon_lat \in {SquareRing, TriangleRing}
    /\ resolution = 3
    /\ max_iterations \in {LongRun \div 2, LongRun}
    /\ verbose = FALSE
    /\ pc = "validate"
    /\ InitCall
    /\ NoService
    /\ NoRoutes
    /\ NoCalls
    /\ NoGeometry
    /\ NoRace
    /\ NoAttendance
    /\ NoWeightUpdate

SpecLongRun == InitLongRun /\ [][Next]_vars

\* Scenario A: two sites of equal weight strictly inside a square boundary (on
\* a diagonal, one above the other, side by side, and at one position), on
\* lattices with an even number of points inside.
ScenarioLayouts ==
    { <<<<1, 1>>, <<3, 3>>>>, <<<<1, 1>>, <<1, 2>>>>, <<<<1, 1>>, <<2, 1>>>>,
      <<<<2, 2>>, <<2, 2>>>> }

InitScenarioA ==
    /\ point_ids = SubSeq(SiteIds, 1, 2)
    /\ points_lon_lat \in ScenarioLayouts
    /\ point_weights = <<1, 1>>
    /\ boundary_lon_lat = WideSquareRing
    /\ resolution \in {ScenarioResolution - 2, ScenarioResolution}
    /\ max_iterations = ScenarioPasses
    /\ verbose \in BOOLEAN
    /\ pc = "validate"
    /\ InitCall
    /\ NoService
    /\ NoRoutes
    /\ NoCalls
    /\ NoGeometry
    /\ NoRace
    /\ NoAttendance
    /\ NoWeightUpdate

SpecScenarioA == InitScenarioA /\ [][Next]_vars

\* ------------------------------------------------- several calls of the core
\* Calls of calculate_weighted_polygons on threads of one process.  Every call
\* has its own frame: its parameters and locals (also those of the helpers it
\* calls).  The module has no variable of its own; the one thing the calls
\* share is the process's standard output.
\* Arguments the calls are made with: two sites each
CallInputs ==
    { [points |-> SubSeq(SpreadLayout, 1, 2), weights |-> <<1, 1>>, boundary |-> SquareRing,
       resolution |-> MaxResolution, verbose |-> FALSE],
      [points |-> SubSeq(SpreadLayout, 1, 2), weights |-> <<1, 3>>, boundary |-> SquareRing,
       resolution |-> MaxResolution, verbose |-> FALSE],
      [points |-> SubSeq(SharedLayout, 1, 2), weights |-> <<3, 1>>, boundary |-> TriangleRing,
       resolution |-> 3, verbose |-> TRUE] }

\* The frame of a call that has not executed a statement yet.
NewFrame(in) ==
    [point_ids |-> SubSeq(SiteIds, 1, 2), points_lon_lat |-> in.points,
     point_weights |-> in.weights, boundary_lon_lat |-> in.boundary,
     resolution |-> in.resolution, max_iterations |-> MaxIterations, verbose |-> in.verbose,
     pc |-> "validate", error |-> "",
     boundary_xy |-> << >>, points_xy |-> << >>, vector_boundaries |-> << >>,
     output_polygons |-> << >>, mask |-> {}, current_weights |-> NoFactors, i |-> Unbound,
     assignments |-> NoAssignments, max_error |-> NoError, assignment_grid |-> << >>,
     work |-> {}, passes |-> 0, pass_weights |-> NoFactors]

\* The frame of the running call.
Frame ==
    [point_ids |-> point_ids, points_lon_lat |-> points_lon_lat,
     point_weights |-> point_weights, boundary_lon_lat |-> boundary_lon_lat,
     resolution |-> resolution, max_iterations |-> max_iterations, verbose |-> verbose,
     pc |-> pc, error |-> error,
     boundary_xy |-> boundary_xy, points_xy |-> points_xy,
     vector_boundaries |-> vector_boundaries, output_polygons |-> output_polygons,
     mask |-> mask, current_weights |-> current_weights, i |-> i,
     assignments |-> assignments, max_error |-> max_error,
     assignment_grid |-> assignment_grid,
     work |-> work, passes |-> passes, pass_weights |-> pass_weights]

\* In frames, the place of the call that is running.
Running == [pc |-> "running"]

\* The variables of the running call are those of frame f.
Resume(f) ==
    /\ point_ids' = f.point_ids
    /\ points_lon_lat' = f.points_lon_lat
    /\ point_weights' = f.point_weights
    /\ boundary_lon_lat' = f.boundary_lon_lat
    /\ resolution' = f.resolution
    /\ max_iterations' = f.max_iterations
    /\ verbose' = f.verbose
    /\ pc' = f.pc
    /\ error' = f.error
    /\ boundary_xy' = f.boundary_xy
    /\ points_xy' = f.points_xy
    /\ vector_boundaries' = f.vector_boundaries
    /\ output_polygons' = f.output_polygons
    /\ mask' = f.mask
    /\ current_weights' = f.current_weights
    /\ i' = f.i
    /\ assignments' = f.assignments
    /\ max_error' = f.max_error
    /\ assignment_grid' = f.assignment_grid
    /\ work' = f.work
    /\ passes' = f.passes
    /\ pass_weights' = f.pass_weights

\* Three calls: the first two with the same arguments, the third with any.
InitCalls ==
    /\ \E same \in CallInputs, other \in CallInputs :
          /\ frames = <<Running, NewFrame(same), NewFrame(other)>>
          /\ point_ids = NewFrame(same).point_ids
          /\ points_lon_lat = same.points
          /\ point_weights = same.weights
          /\ boundary_lon_lat = same.boundary
          /\ resolution = same.resolution
          /\ max_iterations = MaxIterations
          /\ verbose = same.verbose
    /\ running = 1
    /\ preempted = FALSE
    /\ pc = "validate"
    /\ InitCall
    /\ NoService
    /\ route = "none"
    /\ http_status = 0
    /\ NoGeometry
    /\ NoRace
    /\ NoAttendance
    /\ NoWeightUpdate

\* Faulty variant of Switch: the factors are kept in one place for all calls
\* (a module-level array), so the resumed call goes on with the factors of the
\* call that ran before it.
SwitchSharingFactors(c) ==
    /\ running # 0
    /\ c \in 1..Len(frames)
    /\ c # running
    /\ frames' = [frames EXCEPT ![running] = Frame, ![c] = Running]
    /\ running' = c
    /\ preempted' = (preempted \/ (work # {} /\ pc \notin {"returned", "raised"}))
    /\ Resume([frames[c] EXCEPT
                  !.current_weights = IF NoFactors \in {frames[c].current_weights,
                                                         current_weights}
                                      THEN frames[c].current_weights
                                      ELSE current_weights])
    /\ UNCHANGED <<http, geometry, race, attendance, weight, service, stdout>>

\* The interpreter switches to the thread of call c: the running call's frame is
\* set aside as it is and the frame of c is taken up where it was left.
Switch(c) ==
    /\ running # 0
    /\ c \in 1..Len(frames)
    /\ c # running
    /\ frames' = [frames EXCEPT ![running] = Frame, ![c] = Running]
    /\ running' = c
    /\ preempted' = (preempted \/ (work # {} /\ pc \notin {"returned", "raised"}))
    /\ Resume(frames[c])
    /\ UNCHANGED <<http, geometry, race, attendance, weight, service, stdout>>

NextCalls ==
    \/ Validate
    \/ Project
    \/ Rasterize
    \/ CheckWeights
    \/ Pass
    \/ LoopExhausted
    \/ AfterLoop
    \/ Vectorize
    \/ Return
    \/ \E c \in DOMAIN frames : Switch(c)

SpecCalls == InitCalls /\ [][NextCalls]_vars

\* ------------------------------------------------- recalculate_service_areas
\* The service function around the core, on one session of the database.  The
\* code calls the core with resolution=200 and the default max_iterations=100;
\* the model follows the call on the lattice ServiceResolution with the loop
\* limit MaxIterations.  Rows come back from a query in table order.
AreaId == "area-1"
OtherAreaId == "area-2"

\* A nullable column: << >> is NULL, <<v>> holds v.
Null == << >>

\* Candidate wells: status, capacity and area of a row.
WellKinds ==
    { [status |-> "completed", capacity |-> 1, area_id |-> AreaId],
      [status |-> "building", capacity |-> 3, area_id |-> AreaId],
      [status |-> "broken", capacity |-> 3, area_id |-> AreaId],
      [status |-> "draft", capacity |-> 1, area_id |-> AreaId],
      [status |-> "under_maintenance", capacity |-> 3, area_id |-> AreaId],
      [status |-> "completed", capacity |-> 1, area_id |-> OtherAreaId] }

\* Candidate boundaries of the area: one that encloses lattice points, one
\* that encloses nothing
AreaBoundaries == {SquareRing, FlatRing}

\* Faulty variant of LonlatListToGeometry: the first point is appended whether
\* or not the ring is closed already.
LonlatListToGeometryAlwaysClosing(lonlat_list) ==
    [srid |-> "SRID=4326",
     polygon |-> IF Len(lonlat_list) > 0 THEN Append(lonlat_list, lonlat_list[1])
                 ELSE lonlat_list]

\* lines 85-96: the ring as EWKT "SRID=4326;POLYGON((...))", closed first.  The
\* text is held as its parts: the SRID tag and the coordinates in order.
LonlatListToGeometry(lonlat_list) ==
    LET closed == IF Len(lonlat_list) > 0 /\ lonlat_list[1] # lonlat_list[Len(lonlat_list)]
                  THEN Append(lonlat_list, lonlat_list[1])
                  ELSE lonlat_list
    IN  [srid |-> "SRID=4326", polygon |-> closed]

\* what every well holds before the call
OldServiceArea == <<LonlatListToGeometry(SquareRing)>>

InitService ==
    /\ \E n \in 0..MaxSites, layout \in Layouts :
          \E kinds \in [1..n -> WellKinds] :
              wells_db = [r \in 1..n |->
                             [id |-> SiteIds[r],
                              area_id |-> kinds[r].area_id,
                              status |-> kinds[r].status,
                              capacity |-> kinds[r].capacity,
                              location |-> layout[r],
                              service_area |-> OldServiceArea]]
    /\ area_row \in {<< >>} \cup {<<[id |-> AreaId, boundary |-> b]>> : b \in AreaBoundaries}
    /\ wells = wells_db
    /\ svc_pc = "start"
    /\ all_wells_to_calculate = << >>
    /\ polygon_map = << >>
    /\ svc_error = ""
    /\ commits = 0
    /\ rollbacks = 0
    /\ point_ids = << >>
    /\ points_lon_lat = << >>
    /\ point_weights = << >>
    /\ boundary_lon_lat = << >>
    /\ resolution = 0
    /\ max_iterations = 0
    /\ verbose = FALSE
    /\ pc = "idle"
    /\ InitCall
    /\ route = "calculate_areas"
    /\ http_status = 0
    /\ NoCalls
    /\ NoGeometry
    /\ NoRace
    /\ NoAttendance
    /\ NoWeightUpdate

AreaNotFound == "ValueError: Area not found."

\* Well.query.filter(Well.area_id == area_id, <status condition>).all():
\* the numbers of the rows r..Len(rows) that match, in table order
\* Faulty variant of QueryWells: the condition on area_id is left out.
RECURSIVE QueryWellsAnyArea(_, _, _)
QueryWellsAnyArea(rows, statuses, r) ==
    IF r > Len(rows) THEN << >>
    ELSE (IF rows[r].status \in statuses THEN <<r>> ELSE << >>)
             \o QueryWellsAnyArea(rows, statuses, r + 1)

RECURSIVE QueryWells(_, _, _)
QueryWells(rows, statuses, r) ==
    IF r > Len(rows) THEN << >>
    ELSE (IF rows[r].area_id = AreaId /\ rows[r].status \in statuses THEN <<r>> ELSE << >>)
         \o QueryWells(rows, statuses, r + 1)

\* lines 254-275
Query ==
    /\ svc_pc = "start"
    /\ IF area_row = << >>
       THEN /\ svc_error' = AreaNotFound
            /\ svc_pc' = "except"
            /\ UNCHANGED all_wells_to_calculate
       ELSE /\ all_wells_to_calculate' =
                  QueryWells(wells, {"completed", "building"}, 1)
                      \o QueryWells(wells, {"broken"}, 1)
            /\ svc_pc' = IF Len(all_wells_to_calculate') = 0 THEN "returned" ELSE "format"
            /\ UNCHANGED svc_error
    /\ UNCHANGED <<routes, area_row, wells_db, wells, polygon_map, commits, rollbacks,
                   args, pc, error, locals, stdout, work, passes, pass_weights>>

\* lines 277-295: the arguments of the core, and its call
CallCore ==
    /\ svc_pc = "format"
    /\ point_ids' = [k \in 1..Len(all_wells_to_calculate) |->
                        wells[all_wells_to_calculate[k]].id]
    /\ points_lon_lat' = [k \in 1..Len(all_wells_to_calculate) |->
                             wells[all_wells_to_calculate[k]].location]
    /\ point_weights' = [k \in 1..Len(all_wells_to_calculate) |->
                            IF wells[all_wells_to_calculate[k]].status # "broken"
                            THEN wells[all_wells_to_calculate[k]].capacity ELSE 0]
    /\ boundary_lon_lat' = area_row[1].boundary
    /\ resolution' = ServiceResolution
    /\ max_iterations' = MaxIterations
    /\ verbose' = FALSE
    /\ pc' = "validate"
    /\ svc_pc' = "core"
    /\ UNCHANGED <<routes, area_row, wells_db, wells, all_wells_to_calculate, polygon_map, svc_error,
                   commits, rollbacks, error, locals, stdout, work, passes, pass_weights>>

\* Faulty variant of ServiceAreaFor: the last ring of the result is kept.
ServiceAreaLastRing(pm, k) ==
    IF k \in DOMAIN pm /\ pm[k] # << >>
    THEN <<LonlatListToGeometry(pm[k][Len(pm[k])])>>
    ELSE Null

\* lines 300-306: what the well at position k of the list is given
ServiceAreaFor(pm, k) ==
    IF k \in DOMAIN pm /\ pm[k] # << >>
    THEN <<LonlatListToGeometry(pm[k][1])>>
    ELSE Null

\* lines 287, 298-306: the core has returned; the write-back loop
Save ==
    /\ svc_pc = "core"
    /\ pc = "returned"
    /\ polygon_map' = output_polygons
    /\ wells' = [r \in 1..Len(wells) |->
                    IF \E k \in 1..Len(all_wells_to_calculate) : all_wells_to_calculate[k] = r
                    THEN LET k == CHOOSE k \in 1..Len(all_wells_to_calculate) :
                                      all_wells_to_calculate[k] = r
                         IN  [wells[r] EXCEPT !.service_area = ServiceAreaFor(polygon_map', k - 1)]
                    ELSE wells[r]]
    /\ svc_pc' = "commit"
    /\ UNCHANGED <<routes, area_row, wells_db, all_wells_to_calculate, svc_error, commits, rollbacks,
                   args, pc, error, locals, stdout, work, passes, pass_weights>>

WriteBackFailure == "Exception: write-back failed."
CommitFailure == "Exception: commit failed."

\* lines 298-306 and 312: the loop is left by an exception after it has written
\* the first written wells of the list; the session objects keep those writes
SaveInterrupted ==
    /\ svc_pc = "core"
    /\ pc = "returned"
    /\ polygon_map' = output_polygons
    /\ \E written \in 0..(Len(all_wells_to_calculate) - 1) :
          wells' = [r \in 1..Len(wells) |->
                       IF \E k \in 1..written : all_wells_to_calculate[k] = r
                       THEN LET k == CHOOSE k \in 1..written : all_wells_to_calculate[k] = r
                            IN  [wells[r] EXCEPT
                                    !.service_area = ServiceAreaFor(polygon_map', k - 1)]
                       ELSE wells[r]]
    /\ svc_error' = WriteBackFailure
    /\ svc_pc' = "except"
    /\ UNCHANGED <<routes, area_row, wells_db, all_wells_to_calculate, commits, rollbacks,
                   args, pc, error, locals, stdout, work, passes, pass_weights>>

\* lines 308 and 312: db.session.commit() raises (the database refuses the
\* flush or the commit); the transaction is not committed
CommitFails ==
    /\ svc_pc = "commit"
    /\ svc_error' = CommitFailure
    /\ svc_pc' = "except"
    /\ UNCHANGED <<routes, area_row, wells_db, wells, all_wells_to_calculate, polygon_map,
                   commits, rollbacks,
                   args, pc, error, locals, stdout, work, passes, pass_weights>>

\* lines 308-310: db.session.commit()
Commit ==
    /\ svc_pc = "commit"
    /\ wells_db' = wells
    /\ commits' = commits + 1
    /\ svc_pc' = "returned"
    /\ UNCHANGED <<routes, area_row, wells, all_wells_to_calculate, polygon_map, svc_error, rollbacks,
                   args, pc, error, locals, stdout, work, passes, pass_weights>>

\* line 287: the core raised; control passes to the except clause
CoreRaised ==
    /\ svc_pc = "core"
    /\ pc = "raised"
    /\ svc_error' = error
    /\ svc_pc' = "except"
    /\ UNCHANGED <<routes, area_row, wells_db, wells, all_wells_to_calculate, polygon_map, commits,
                   rollbacks, args, pc, error, locals, stdout, work, passes, pass_weights>>

\* Faulty variant of Rollback: the except clause commits what the session holds.
RollbackAsCommit ==
    /\ svc_pc = "except"
    /\ wells_db' = wells
    /\ rollbacks' = rollbacks + 1
    /\ svc_pc' = "raised"
    /\ UNCHANGED <<routes, area_row, wells, all_wells_to_calculate, polygon_map, svc_error,
                   commits, args, pc, error, locals, stdout, work, passes, pass_weights>>

\* lines 312-316: db.session.rollback(), then the exception is raised again
Rollback ==
    /\ svc_pc = "except"
    /\ wells' = wells_db
    /\ rollbacks' = rollbacks + 1
    /\ svc_pc' = "raised"
    /\ UNCHANGED <<routes, area_row, wells_db, all_wells_to_calculate, polygon_map, svc_error, commits,
                   args, pc, error, locals, stdout, work, passes, pass_weights>>

\* routes/areas.py lines 36-41: the view answers with the wells, or with 500
\* when recalculate_service_areas raised
CalculateAreas ==
    /\ route = "calculate_areas"
    /\ http_status = 0
    /\ svc_pc \in {"returned", "raised"}
    /\ http_status' = IF svc_pc = "raised" THEN 500 ELSE 200
    /\ UNCHANGED <<route, calls, geometry, race, attendance, weight, service, args, pc, error, locals, stdout, work,
                   passes, pass_weights>>

NextService ==
    \/ Query
    \/ CallCore
    \/ Validate
    \/ Project
    \/ Rasterize
    \/ CheckWeights
    \/ Pass
    \/ LoopExhausted
    \/ AfterLoop
    \/ Vectorize
    \/ Return
    \/ Save
    \/ SaveInterrupted
    \/ Commit
    \/ CommitFails
    \/ CoreRaised
    \/ Rollback
    \/ CalculateAreas

SpecService == InitService /\ [][NextService]_vars

\* ------------------------------------------------- _lonlat_list_to_geometry
\* The function on its own: rings of up to MaxRingLen points drawn from three
\* positions, closed or not, serialized and then serialized again.  The list
\* object is the caller's; line 93 appends to it in place.
RingPoints == {<<0, 0>>, <<2, 0>>, <<1, 2>>}
MaxSerializations == 3

InitGeometry ==
    /\ \E n \in 1..MaxRingLen : given_ring \in [1..n -> RingPoints]
    /\ list_object = given_ring
    /\ wkts = << >>
    /\ pc = "idle"
    /\ point_ids = << >>
    /\ points_lon_lat = << >>
    /\ point_weights = << >>
    /\ boundary_lon_lat = << >>
    /\ resolution = 0
    /\ max_iterations = 0
    /\ verbose = FALSE
    /\ InitCall
    /\ NoService
    /\ NoRoutes
    /\ NoCalls
    /\ NoRace
    /\ NoAttendance
    /\ NoWeightUpdate

\* lines 85-96, called with the list object
Serialize ==
    /\ list_object # << >>
    /\ Len(wkts) < MaxSerializations
    /\ wkts' = Append(wkts, LonlatListToGeometry(list_object))
    /\ list_object' = LonlatListToGeometry(list_object).polygon
    /\ UNCHANGED <<given_ring, http, calls, race, attendance, weight, service, args, pc, error, locals, stdout, work, passes,
                   pass_weights>>

NextGeometry == Serialize

SpecGeometry == InitGeometry /\ [][NextGeometry]_vars

\* ------------------------------------------------- routes/wells.py: attendance
\* POST /api/wells/<well_id>/attendance for one well, served by MaxRequests
\* threads, each with a session of its own.  The database runs the sessions'
\* transactions at its default isolation (read committed).
InitAttendance ==
    /\ well_exists \in BOOLEAN
    /\ load_db \in 0..1
    /\ load_before = load_db
    /\ requests = [r \in 1..MaxRequests |-> [pc |-> "start", current_load |-> Null,
                                               status |-> 0]]
    /\ pc = "idle"
    /\ point_ids = << >>
    /\ points_lon_lat = << >>
    /\ point_weights = << >>
    /\ boundary_lon_lat = << >>
    /\ resolution = 0
    /\ max_iterations = 0
    /\ verbose = FALSE
    /\ InitCall
    /\ NoService
    /\ NoRoutes
    /\ NoCalls
    /\ NoGeometry
    /\ NoRace
    /\ NoWeightUpdate

\* line 91: Well.query.get_or_404(well_id) loads the row into the session; for
\* a missing row it raises NotFound, which the except clause of lines 102-105
\* answers with 500 after a rollback
GetWell(r) ==
    /\ requests[r].pc = "start"
    /\ requests' = [requests EXCEPT ![r] =
                        IF well_exists
                        THEN [pc |-> "loaded", current_load |-> <<load_db>>, status |-> 0]
                        ELSE [pc |-> "done", current_load |-> Null, status |-> 500]]
    /\ UNCHANGED <<well_exists, load_db, load_before, http, calls, geometry, race, weight, service,
                   args, pc, error, locals, stdout, work, passes, pass_weights>>

\* lines 92-101: well.current_load += 1 on the session object, then
\* db.session.commit() writes that value to the row (UPDATE ... SET
\* current_load = <value>), and the view answers 200
SubmitAttendance(r) ==
    /\ requests[r].pc = "loaded"
    /\ load_db' = requests[r].current_load[1] + 1
    /\ requests' = [requests EXCEPT ![r] = [pc |-> "done", current_load |-> <<load_db'>>,
                                            status |-> 200]]
    /\ UNCHANGED <<well_exists, load_before, http, calls, geometry, race, weight, service,
                   args, pc, error, locals, stdout, work, passes, pass_weights>>

\* lines 93 and 102-105: db.session.commit() raises; rollback, 500
SubmitAttendanceFails(r) ==
    /\ requests[r].pc = "loaded"
    /\ requests' = [requests EXCEPT ![r] = [pc |-> "done", current_load |-> Null,
                                            status |-> 500]]
    /\ UNCHANGED <<well_exists, load_db, load_before, http, calls, geometry, race, weight, service,
                   args, pc, error, locals, stdout, work, passes, pass_weights>>

NextAttendance ==
    \/ \E r \in DOMAIN requests : GetWell(r)
    \/ \E r \in DOMAIN requests : SubmitAttendance(r)
    \/ \E r \in DOMAIN requests : SubmitAttendanceFails(r)

SpecAttendance == InitAttendance /\ [][NextAttendance]_vars

\* --------------------------------------------- routes/wells.py: update-weight
\* POST /api/wells/<well_id>/update-weight.  A float is held as <<h>>, the
\* number of halves it counts, or as << >> when it is nan; the values of the
\* "score" member of the body:
ScoreValues ==
    { [type |-> "null"],
      [type |-> "string", text |-> "abc"],
      [type |-> "string", text |-> "nan"],
      [type |-> "string", text |-> "0.5"],
      [type |-> "array"] }
    \cup { [type |-> "number", halves |-> h] : h \in {-3, -2, -1, 0, 2, 3} }

\* request.get_json(): an object with or without the member, or an array
Bodies ==
    { [type |-> "object", members |-> {}], [type |-> "array"] }
    \cup { [type |-> "object", members |-> {"score"}, score |-> v] : v \in ScoreValues }

\* line 317: data.get('score')
GetScore(body) ==
    IF body.type # "object" THEN [raises |-> "AttributeError"]
    ELSE IF "score" \notin body.members \/ body.score.type = "null"
         THEN [raises |-> "", value |-> [type |-> "None"]]
         ELSE [raises |-> "", value |-> body.score]

\* line 323: float(score) of a value that is not None
Float(v) ==
    CASE v.type = "number" -> [raises |-> "", value |-> <<v.halves>>]
      [] v.type = "string" ->
            (CASE v.text = "0.5" -> [raises |-> "", value |-> <<1>>]
               [] v.text = "nan" -> [raises |-> "", value |-> << >>]
               [] OTHER -> [raises |-> "ValueError"])
      [] OTHER -> [raises |-> "TypeError"]

\* line 324: -1.0 <= score <= 1.0 (false of nan)
InRange(x) == x # << >> /\ -2 <= x[1] /\ x[1] <= 2

\* Faulty variant of NewCapacity: the product is rounded up, not truncated.
NewCapacityRoundedUp(current_capacity, x) ==
    LET doubled == current_capacity * (2 + x[1])
    IN  IF doubled > 0 THEN (doubled + 1) \div 2 ELSE 0

\* lines 333-338: max(0, int(current_capacity * (1 + score)))
NewCapacity(current_capacity, x) ==
    LET doubled == current_capacity * (2 + x[1])
        truncated == IF doubled >= 0 THEN doubled \div 2 ELSE -((-doubled) \div 2)
    IN  IF truncated > 0 THEN truncated ELSE 0

\* the wells of one area (and one of another), the area's row, and one request
\* that names a well of the area or no well at all
InitWeight ==
    /\ \E n \in 1..MaxSites :
          \E kinds \in [1..n -> WellKinds] :
              wells_db = [r \in 1..n |->
                             [id |-> SiteIds[r],
                              area_id |-> kinds[r].area_id,
                              status |-> kinds[r].status,
                              capacity |-> kinds[r].capacity,
                              location |-> SpreadLayout[r],
                              service_area |-> OldServiceArea]]
    /\ area_row \in {<<[id |-> AreaId, boundary |-> b]>> : b \in AreaBoundaries}
    /\ wells = wells_db
    /\ wells_before = wells_db
    /\ svc_pc = "none"
    /\ all_wells_to_calculate = << >>
    /\ polygon_map = << >>
    /\ svc_error = ""
    /\ commits = 0
    /\ rollbacks = 0
    /\ point_ids = << >>
    /\ points_lon_lat = << >>
    /\ point_weights = << >>
    /\ boundary_lon_lat = << >>
    /\ resolution = 0
    /\ max_iterations = 0
    /\ verbose = FALSE
    /\ pc = "idle"
    /\ InitCall
    /\ route = "update_well_weight"
    /\ http_status = 0
    /\ data \in Bodies
    /\ well_id \in {0} \cup {r \in DOMAIN wells_db : wells_db[r].area_id = AreaId}
    /\ score = << >>
    /\ weight_pc = "start"
    /\ NoCalls
    /\ NoGeometry
    /\ NoRace
    /\ NoAttendance

\* lines 316-327: the score is read and checked.  AttributeError and TypeError
\* are caught by nothing in the view: the framework answers 500.
CheckScore ==
    /\ weight_pc = "start"
    /\ LET got == GetScore(data)
           converted == Float(got.value)
       IN  IF got.raises # "" THEN
               /\ http_status' = 500 /\ weight_pc' = "done" /\ UNCHANGED score
           ELSE IF got.value.type = "None" THEN
               /\ http_status' = 400 /\ weight_pc' = "done" /\ UNCHANGED score
           ELSE IF converted.raises = "ValueError" THEN
               /\ http_status' = 400 /\ weight_pc' = "done" /\ UNCHANGED score
           ELSE IF converted.raises # "" THEN
               /\ http_status' = 500 /\ weight_pc' = "done" /\ UNCHANGED score
           ELSE IF ~InRange(converted.value) THEN
               /\ http_status' = 400 /\ weight_pc' = "done"
               /\ score' = converted.value
           ELSE
               /\ weight_pc' = "update" /\ score' = converted.value
               /\ UNCHANGED http_status
    /\ UNCHANGED <<route, data, well_id, wells_before, calls, geometry, race, attendance, service,
                   args, pc, error, locals, stdout, work, passes, pass_weights>>

\* Faulty variant of UpdateCapacity: lines 342-343 are left out, the status is
\* never set.
UpdateCapacityKeepingStatus ==
    /\ weight_pc = "update"
    /\ IF well_id \notin DOMAIN wells
       THEN /\ wells' = wells_db
            /\ rollbacks' = rollbacks + 1
            /\ http_status' = 500
            /\ weight_pc' = "done"
            /\ UNCHANGED <<wells_db, commits, svc_pc>>
       ELSE /\ wells' = [wells EXCEPT ![well_id] =
                            [@ EXCEPT !.capacity = NewCapacity(@, score)]]
            /\ wells_db' = wells'
            /\ commits' = commits + 1
            /\ svc_pc' = "start"
            /\ weight_pc' = "recalculate"
            /\ UNCHANGED <<rollbacks, http_status>>
    /\ UNCHANGED <<route, data, well_id, score, wells_before, calls, geometry, race, attendance,
                   area_row, all_wells_to_calculate, polygon_map, svc_error,
                   args, pc, error, locals, stdout, work, passes, pass_weights>>

\* lines 329-351: the well is loaded, its capacity (and status) set and
\* committed, and recalculate_service_areas(well.area_id) is called; a missing
\* row raises NotFound, answered by lines 356-359 with a rollback and 500
UpdateCapacity ==
    /\ weight_pc = "update"
    /\ IF well_id \notin DOMAIN wells
       THEN /\ wells' = wells_db
            /\ rollbacks' = rollbacks + 1
            /\ http_status' = 500
            /\ weight_pc' = "done"
            /\ UNCHANGED <<wells_db, commits, svc_pc>>
       ELSE /\ wells' = [wells EXCEPT ![well_id] =
                            [@ EXCEPT !.capacity = NewCapacity(@, score),
                                      !.status = IF score = <<-2>> THEN "broken" ELSE @]]
            /\ wells_db' = wells'
            /\ commits' = commits + 1
            /\ svc_pc' = "start"
            /\ weight_pc' = "recalculate"
            /\ UNCHANGED <<rollbacks, http_status>>
    /\ UNCHANGED <<route, data, well_id, score, wells_before, calls, geometry, race, attendance,
                   area_row, all_wells_to_calculate, polygon_map, svc_error,
                   args, pc, error, locals, stdout, work, passes, pass_weights>>

\* lines 345 and 356-359: the commit of the new capacity raises
UpdateCapacityFails ==
    /\ weight_pc = "update"
    /\ well_id \in DOMAIN wells
    /\ rollbacks' = rollbacks + 1
    /\ http_status' = 500
    /\ weight_pc' = "done"
    /\ UNCHANGED <<route, data, well_id, score, wells_before, calls, geometry, race, attendance,
                   area_row, wells_db, wells, svc_pc, all_wells_to_calculate, polygon_map,
                   svc_error, commits,
                   args, pc, error, locals, stdout, work, passes, pass_weights>>

\* lines 351-359: the recalculation has returned (the well is answered with
\* 200) or raised (rollback, 500)
UpdateWellWeight ==
    /\ weight_pc = "recalculate"
    /\ svc_pc \in {"returned", "raised"}
    /\ IF svc_pc = "raised"
       THEN /\ wells' = wells_db
            /\ rollbacks' = rollbacks + 1
            /\ http_status' = 500
       ELSE /\ http_status' = 200
            /\ UNCHANGED <<wells, rollbacks>>
    /\ weight_pc' = "done"
    /\ UNCHANGED <<route, data, well_id, score, wells_before, calls, geometry, race, attendance,
                   area_row, wells_db, svc_pc, all_wells_to_calculate, polygon_map,
                   svc_error, commits,
                   args, pc, error, locals, stdout, work, passes, pass_weights>>

NextWeight ==
    \/ CheckScore
    \/ UpdateCapacity
    \/ UpdateCapacityFails
    \/ UpdateWellWeight
    \/ Query
    \/ CallCore
    \/ Validate
    \/ Project
    \/ Rasterize
    \/ CheckWeights
    \/ Pass
    \/ LoopExhausted
    \/ AfterLoop
    \/ Vectorize
    \/ Return
    \/ Save
    \/ SaveInterrupted
    \/ Commit
    \/ CommitFails
    \/ CoreRaised
    \/ Rollback

SpecWeight == InitWeight /\ [][NextWeight]_vars

\* ------------------------------------- update-weight requests, one after another
\* Requests for the first well of the table, served one after the other, each
\* by a session of its own that starts from the committed rows.  A second
\* well, if there is one, is a building well of the area.
InitUpdates ==
    /\ InitWeight
    /\ well_id \in {0, 1}
    /\ \A r \in DOMAIN wells_db :
          r > 1 => wells_db[r].status = "building" /\ wells_db[r].area_id = AreaId

\* lines 310-311: the next request arrives once the last one is answered
NextRequest ==
    /\ weight_pc = "done"
    /\ \A r \in DOMAIN wells_db : wells_db[r].capacity <= MaxCapacity
    /\ data' \in Bodies
    /\ score' = << >>
    /\ weight_pc' = "start"
    /\ http_status' = 0
    /\ wells_before' = wells_db
    /\ wells' = wells_db
    /\ svc_pc' = "none"
    /\ all_wells_to_calculate' = << >>
    /\ polygon_map' = << >>
    /\ svc_error' = ""
    /\ commits' = 0
    /\ rollbacks' = 0
    /\ point_ids' = << >>
    /\ points_lon_lat' = << >>
    /\ point_weights' = << >>
    /\ boundary_lon_lat' = << >>
    /\ resolution' = 0
    /\ max_iterations' = 0
    /\ verbose' = FALSE
    /\ pc' = "idle"
    /\ error' = ""
    /\ boundary_xy' = << >>
    /\ points_xy' = << >>
    /\ vector_boundaries' = << >>
    /\ output_polygons' = << >>
    /\ mask' = {}
    /\ current_weights' = NoFactors
    /\ i' = Unbound
    /\ assignments' = NoAssignments
    /\ max_error' = NoError
    /\ assignment_grid' = << >>
    /\ stdout' = << >>
    /\ work' = {}
    /\ passes' = 0
    /\ pass_weights' = NoFactors
    /\ UNCHANGED <<route, well_id, calls, geometry, race, attendance, area_row, wells_db>>

NextUpdates == NextWeight \/ NextRequest

SpecUpdates == InitUpdates /\ [][NextUpdates]_vars

\* ------------------------------------- requests for one area, side by side
\* update_well_weight and calculate_areas requests served at the same time,
\* each by a database session of its own, with no lock and no version check
\* in either view or in recalculate_service_areas.  A step is what a request
\* does between two moments at which it touches the database; wells_db is the
\* committed table.  The positions of the wells and the boundary of the area
\* are changed by none of these requests, so the polygon the core returns for
\* a well is held as the arguments that vary: the ids and the weights the core
\* was called with.

\* number of requests served side by side
RaceRequests == 2

\* scores of the update requests: -1.0 and 1.0, as halves
RaceScores == {<<-2>>, <<2>>}

\* the requests that can be made of a table: calculate-service-areas of the
\* area, or update-weight of a well of the area or of no well at all
RaceKinds(rows) ==
    { [view |-> "calculate_areas", well_id |-> 0, score |-> Null] }
    \cup { [view |-> "update_well_weight", well_id |-> w, score |-> x] :
              w \in {0} \cup {r \in DOMAIN rows : rows[r].area_id = AreaId},
              x \in RaceScores }

InitRace ==
    /\ \E n \in 1..MaxSites :
          \E kinds \in [1..n -> WellKinds] :
              wells_db = [r \in 1..n |->
                             [id |-> SiteIds[r],
                              area_id |-> kinds[r].area_id,
                              status |-> kinds[r].status,
                              capacity |-> kinds[r].capacity,
                              location |-> SpreadLayout[r],
                              service_area |-> Null]]
    /\ area_row \in {<< >>, <<[id |-> AreaId, boundary |-> SquareRing]>>}
    /\ \E made \in [1..RaceRequests -> RaceKinds(wells_db)] :
          sessions = [s \in 1..RaceRequests |->
                         [view |-> made[s].view,
                          well_id |-> made[s].well_id,
                          score |-> made[s].score,
                          pc |-> IF made[s].view = "update_well_weight"
                                 THEN "start" ELSE "recalculate",
                          loaded |-> Null,
                          call |-> Null,
                          status |-> 0]]
    /\ wells = << >>
    /\ svc_pc = "none"
    /\ all_wells_to_calculate = << >>
    /\ polygon_map = << >>
    /\ svc_error = ""
    /\ commits = 0
    /\ rollbacks = 0
    /\ pc = "idle"
    /\ point_ids = << >>
    /\ points_lon_lat = << >>
    /\ point_weights = << >>
    /\ boundary_lon_lat = << >>
    /\ resolution = 0
    /\ max_iterations = 0
    /\ verbose = FALSE
    /\ InitCall
    /\ NoRoutes
    /\ NoCalls
    /\ NoGeometry
    /\ NoAttendance
    /\ NoWeightUpdate

\* what the steps of these requests leave alone
RaceRest ==
    <<area_row, wells, svc_pc, all_wells_to_calculate, polygon_map, svc_error,
      http, calls, geometry, attendance, weight,
      args, pc, error, locals, stdout, work, passes, pass_weights>>

\* wells.py line 330: Well.query.get_or_404(well_id) loads the row into the
\* session of the request
LoadWell(s) ==
    /\ sessions[s].pc = "start"
    /\ sessions[s].well_id \in DOMAIN wells_db
    /\ sessions' = [sessions EXCEPT
                       ![s].loaded = <<[capacity |-> wells_db[sessions[s].well_id].capacity,
                                        status |-> wells_db[sessions[s].well_id].status]>>,
                       ![s].pc = "loaded"]
    /\ UNCHANGED <<wells_db, commits, rollbacks, RaceRest>>

\* wells.py line 330 for a missing row: NotFound, answered by lines 356-359
LoadWellFails(s) ==
    /\ sessions[s].pc = "start"
    /\ sessions[s].well_id \notin DOMAIN wells_db
    /\ sessions' = [sessions EXCEPT ![s].pc = "done", ![s].status = 500]
    /\ rollbacks' = rollbacks + 1
    /\ UNCHANGED <<wells_db, commits, RaceRest>>

\* wells.py lines 333-345: the capacity is computed from the value the session
\* loaded, the status is set for score -1.0, and the commit writes to the row
\* the columns whose value differs from the loaded one
CommitCapacity(s) ==
    /\ sessions[s].pc = "loaded"
    /\ LET w == sessions[s].well_id
           was == sessions[s].loaded[1]
           capacity == NewCapacity(was.capacity, sessions[s].score)
           status == IF sessions[s].score = <<-2>> THEN "broken" ELSE was.status
       IN  wells_db' = [wells_db EXCEPT
                           ![w].capacity = IF capacity # was.capacity THEN capacity ELSE @,
                           ![w].status = IF status # was.status THEN status ELSE @]
    /\ commits' = commits + 1
    /\ sessions' = [sessions EXCEPT ![s].pc = "recalculate"]
    /\ UNCHANGED <<rollbacks, RaceRest>>

\* utils.py lines 259-282: the rows the two queries return, their ids and
\* their weights
CoreCall(rows) ==
    LET sites == QueryWells(rows, {"completed", "building"}, 1)
                     \o QueryWells(rows, {"broken"}, 1)
    IN  [sites |-> sites,
         point_ids |-> [k \in DOMAIN sites |-> rows[sites[k]].id],
         point_weights |-> [k \in DOMAIN sites |->
                               IF rows[sites[k]].status # "broken"
                               THEN rows[sites[k]].capacity ELSE 0]]

\* the polygons of a call of the core
PolygonsOf(call) == [point_ids |-> call.point_ids, point_weights |-> call.point_weights]

\* utils.py lines 255-295: the area and the wells are read as they are stored
\* now, and the core is called with what was read; with no well to calculate
\* the function returns [] and the view answers 200 (lines 273-275)
RecalcRead(s) ==
    /\ sessions[s].pc = "recalculate"
    /\ area_row # << >>
    /\ LET call == CoreCall(wells_db)
       IN  sessions' = [sessions EXCEPT ![s] =
                           IF Len(call.sites) = 0
                           THEN [@ EXCEPT !.pc = "done", !.status = 200]
                           ELSE [@ EXCEPT !.pc = "computed", !.call = <<call>>]]
    /\ UNCHANGED <<wells_db, commits, rollbacks, RaceRest>>

\* utils.py lines 255-257 for a missing area: ValueError, rolled back by lines
\* 312-316 and answered with 500 by either view (twice rolled back by
\* update_well_weight)
RecalcReadFails(s) ==
    /\ sessions[s].pc = "recalculate"
    /\ area_row = << >>
    /\ sessions' = [sessions EXCEPT ![s].pc = "done", ![s].status = 500]
    /\ rollbacks' = rollbacks + (IF sessions[s].view = "update_well_weight" THEN 2 ELSE 1)
    /\ UNCHANGED <<wells_db, commits, RaceRest>>

\* utils.py lines 298-310: service_area of every row that was read is set and
\* committed (UPDATE ... SET service_area of these rows, nothing else), and
\* the view answers 200
RecalcCommit(s) ==
    /\ sessions[s].pc = "computed"
    /\ LET call == sessions[s].call[1]
       IN  wells_db' = [r \in DOMAIN wells_db |->
                           IF \E k \in DOMAIN call.sites : call.sites[k] = r
                           THEN [wells_db[r] EXCEPT !.service_area = <<PolygonsOf(call)>>]
                           ELSE wells_db[r]]
    /\ commits' = commits + 1
    /\ sessions' = [sessions EXCEPT ![s].pc = "done", ![s].status = 200]
    /\ UNCHANGED <<rollbacks, RaceRest>>

NextRace ==
    \/ \E s \in DOMAIN sessions : LoadWell(s)
    \/ \E s \in DOMAIN sessions : LoadWellFails(s)
    \/ \E s \in DOMAIN sessions : CommitCapacity(s)
    \/ \E s \in DOMAIN sessions : RecalcRead(s)
    \/ \E s \in DOMAIN sessions : RecalcReadFails(s)
    \/ \E s \in DOMAIN sessions : RecalcCommit(s)

SpecRace == InitRace /\ [][NextRace]_vars

\* ============================================================== properties
\* The solver has just handed its grid back to calculate_weighted_polygons;
\* neither the grid nor the output stream changes after this point.
SolverReturned == pc = "vectorize"

LengthsDiffer ==
    ~(Len(point_ids) = Len(points_lon_lat) /\ Len(points_lon_lat) = Len(point_weights))

\* Counts and proportional error read off the returned grid, without the
\* solver's own bookkeeping.
GridCount(j) == Cardinality({cell \in Cells(resolution) : assignment_grid[cell] = j})
Inside == Mask(boundary_xy, resolution)
RECURSIVE ClampedSum(_, _)
ClampedSum(w, k) == IF k = 0 THEN 0 ELSE (IF w[k] > 0 THEN w[k] ELSE 0) + ClampedSum(w, k - 1)
ClampedTotal == ClampedSum(point_weights, Len(point_weights))
\* |A_j / total - p_j| <= tolerance, cross-multiplied
ShareWithinTolerance(j) ==
    LET wj == IF At(point_weights, j) > 0 THEN At(point_weights, j) ELSE 0
    IN  Abs(GridCount(j) * ClampedTotal - wj * Cardinality(Inside)) * ToleranceDen
            <= ToleranceNum * ClampedTotal * Cardinality(Inside)
ReturnedWithinTolerance == \A j \in Indices(point_ids) : ShareWithinTolerance(j)

\* C1: a call whose three argument lists do not all have the same length ends
\* with the validation error, and nothing of projection, rasterization or the
\* solver has run or left a value behind.
C1_ValidationBeforeWork ==
    LengthsDiffer =>
        /\ pc \in {"validate", "raised"}
        /\ pc = "raised" => error = ValidationError
        /\ work = {}
        /\ passes = 0
        /\ boundary_xy = << >> /\ points_xy = << >> /\ mask = {}
        /\ assignment_grid = << >> /\ output_polygons = << >>

\* C1 case: ids and positions agree in number and only the weights do not;
\* the call has failed.
C1_Witness ==
    /\ Len(point_ids) = Len(points_lon_lat)
    /\ Len(point_weights) # Len(point_ids)
    /\ pc = "raised"
    /\ error = ValidationError

\* C2: in the grid the solver returns, with positive clamped total weight a cell
\* holds a site index 0..n-1 exactly when it is inside the boundary and the
\* sentinel otherwise, and the per-site counts sum to the number of inside
\* samples; with no positive weight every cell holds the sentinel.
C2_GridPartition ==
    SolverReturned =>
        IF ClampedTotal > 0
        THEN /\ \A cell \in Cells(resolution) :
                    /\ cell \in Inside <=> assignment_grid[cell] \in Indices(point_ids)
                    /\ cell \notin Inside => assignment_grid[cell] = Unassigned
             /\ SumOver([j \in Indices(point_ids) |-> GridCount(j)], Indices(point_ids))
                    = Cardinality(Inside)
        ELSE \A cell \in Cells(resolution) : assignment_grid[cell] = Unassigned

\* C2 case: a returned grid with cells outside the boundary and inside cells
\* shared between two sites.
C2_Witness ==
    /\ pc = "returned"
    /\ ClampedTotal > 0
    /\ Inside # Cells(resolution)
    /\ GridCount(0) > 0
    /\ GridCount(1) > 0

\* C3: the solver never runs more than max_iterations passes, and when it
\* returns with positive total weight either the proportional error of the
\* returned assignment is within tolerance or it ran exactly max_iterations
\* passes.
C3_ToleranceOrExhaustion ==
    /\ passes <= max_iterations
    /\ (SolverReturned /\ ClampedTotal > 0) =>
           (ReturnedWithinTolerance \/ passes = max_iterations)

\* C3 case: two sites of positive weight, each with inside points; the solver
\* met the tolerance and stopped before the limit.
C3_Witness ==
    /\ pc = "returned"
    /\ \A k \in 1..Len(point_weights) : point_weights[k] > 0
    /\ GridCount(0) > 0
    /\ GridCount(1) > 0
    /\ passes > 0
    /\ passes < max_iterations
    /\ ReturnedWithinTolerance

\* The loop ran max_iterations (at least one) passes and none met the tolerance.
ExhaustedWithoutConvergence ==
    /\ passes > 0
    /\ passes = max_iterations
    /\ pc # "loop"
    /\ ~BelowTolerance(max_error)

\* C4: when the loop runs max_iterations passes without meeting the tolerance
\* the call raises nothing, and the grid returned is the assignment of the last
\* pass, computed with the factors that pass started from.
C4_LastPassReturned ==
    ExhaustedWithoutConvergence =>
        /\ pc # "raised" /\ error = ""
        /\ pc = "vectorize" =>
              \A cell \in mask :
                  assignment_grid[cell] =
                      Assign(points_xy, boundary_xy, resolution, mask, pass_weights)[cell]

\* C4 case: the loop is exhausted, the call has returned, and the factors as
\* updated after the last pass would have given another assignment.
C4_Witness ==
    /\ ExhaustedWithoutConvergence
    /\ pc = "returned"
    /\ \E cell \in mask :
          Assign(points_xy, boundary_xy, resolution, mask, current_weights)[cell]
              # assignment_grid[cell]

Warned == \E k \in 1..Len(stdout) : stdout[k] = MaxIterationsWarning

\* C5, as stated: once the solver has returned from its loop, the warning has
\* been emitted exactly when the last pass did not meet the tolerance.
C5_WarningIffNotConverged ==
    (SolverReturned /\ passes > 0) => (Warned <=> ~BelowTolerance(max_error))

\* C5 case: the configuration of recalculate_service_areas (verbose = False),
\* exhausted without convergence, returned, and nothing printed.
C5_SilentNonConvergence ==
    /\ pc = "returned"
    /\ ~verbose
    /\ ExhaustedWithoutConvergence
    /\ stdout = << >>
\* Some lattice point is inside the boundary, from the arguments alone.
SomePointInside ==
    LET bxy == AllToXY(boundary_lon_lat)
    IN  \E cell \in Cells(resolution) :
            ContainsPoint(bxy, resolution, CellPoint(bxy, resolution, cell))

\* C6: when every weight is <= 0 and at least one lattice point is inside the
\* boundary, the call raises nothing, runs no assignment pass, and its result
\* has one entry per site, each an empty list of rings.
C6_AllWeightsNonPositive ==
    (~LengthsDiffer /\ SomePointInside
        /\ \A k \in 1..Len(point_weights) : point_weights[k] <= 0) =>
        /\ pc # "raised" /\ error = ""
        /\ passes = 0
        /\ pc = "returned" =>
              /\ Cardinality(DOMAIN output_polygons) = Len(point_ids)
              /\ \A k \in DOMAIN output_polygons : output_polygons[k] = << >>

\* C6 case: two sites, one of weight 0 and one of negative weight; returned.
C6_Witness ==
    /\ pc = "returned"
    /\ Len(point_weights) = 2
    /\ point_weights[1] = 0
    /\ point_weights[2] < 0
    /\ SomePointInside

\* C7: when no lattice point is inside the boundary the call gets no further
\* than rasterization, ends with the empty-region error, and leaves no
\* assignment, whatever the weights are.
C7_EmptyRegion ==
    (~LengthsDiffer /\ ~SomePointInside) =>
        /\ pc \in {"validate", "project", "rasterize", "raised"}
        /\ pc = "raised" => error = EmptyRegionError
        /\ passes = 0
        /\ assignments = NoAssignments
        /\ assignment_grid = << >> /\ output_polygons = << >>

\* C7 case: a boundary with positive area on a lattice too coarse for it, all
\* weights zero; the call has failed.
C7_Witness ==
    /\ pc = "raised"
    /\ error = EmptyRegionError
    /\ boundary_lon_lat = SquareRing
    /\ \A k \in 1..Len(point_weights) : point_weights[k] = 0

\* C8, as stated: the returned mapping has exactly the caller's identifiers as
\* its keys.
C8_KeyedByIdentifier ==
    pc = "returned" => DOMAIN output_polygons = {point_ids[k] : k \in 1..Len(point_ids)}

\* C8 case: the returned mapping's keys are the positions 0..n-1, none of them
\* an identifier the caller passed.
C8_KeyedByPosition ==
    /\ pc = "returned"
    /\ DOMAIN output_polygons = Indices(point_ids)
    /\ DOMAIN output_polygons \cap {point_ids[k] : k \in 1..Len(point_ids)} = {}

\* A pass has just run: the loop continues, or the pass met the tolerance.
PassJustRan ==
    /\ passes > 0
    /\ pc = "loop" \/ (pc = "after_loop" /\ BelowTolerance(max_error))

\* cell's weighted distance to site j under the factors the last pass used
PassDist(cell, j) ==
    WeightedDist(pass_weights[j], Dist2(points_xy, boundary_xy, resolution, j, cell))

\* C9: in every pass each inside point goes to a site of minimal weighted
\* distance, and every site of lower index is strictly farther (weighted).
C9_ArgMinLowestIndex ==
    PassJustRan =>
        \A cell \in mask :
            \A j \in Indices(point_ids) :
                /\ ~WeightedLess(PassDist(cell, j), PassDist(cell, assignments[cell]))
                /\ j < assignments[cell] =>
                      WeightedLess(PassDist(cell, assignments[cell]), PassDist(cell, j))

\* C9 case: an inside point whose minimal weighted distance is attained by the
\* site it went to and by a site of higher index as well.
C9_Witness ==
    /\ PassJustRan
    /\ \E cell \in mask : \E j \in Indices(point_ids) :
          /\ j > assignments[cell]
          /\ ~WeightedLess(PassDist(cell, assignments[cell]), PassDist(cell, j))
\* C10: after a successful recalculate_service_areas every participating
\* well's stored service_area is the serialization of the first ring of its
\* core result, or NULL when that result is empty or absent; nothing is stored
\* before the one commit, and there is one commit.
C10_FirstRingCommittedOnce ==
    /\ commits <= 1
    /\ commits = 0 => \A r \in 1..Len(wells_db) : wells_db[r].service_area = OldServiceArea
    /\ (svc_pc = "returned" /\ all_wells_to_calculate # << >>) =>
          /\ commits = 1
          /\ \A k \in 1..Len(all_wells_to_calculate) :
                wells_db[all_wells_to_calculate[k]].service_area =
                    IF (k - 1) \in DOMAIN output_polygons /\ Len(output_polygons[k - 1]) > 0
                    THEN <<LonlatListToGeometry(Head(output_polygons[k - 1]))>>
                    ELSE Null

\* C10 case: a successful call in which a well's result has two different
\* rings, and the stored area is made of the first.
C10_Witness ==
    /\ svc_pc = "returned"
    /\ commits = 1
    /\ \E k \in 1..Len(all_wells_to_calculate) :
          /\ Len(output_polygons[k - 1]) > 1
          /\ LonlatListToGeometry(output_polygons[k - 1][1])
                 # LonlatListToGeometry(output_polygons[k - 1][Len(output_polygons[k - 1])])
          /\ wells_db[all_wells_to_calculate[k]].service_area
                 = <<LonlatListToGeometry(output_polygons[k - 1][1])>>

\* C11: when recalculate_service_areas fails (area not found, the core raising,
\* the write-back loop interrupted, the commit refused) nothing was committed,
\* the session was rolled back once, every stored service_area is what it was
\* before the call, the session objects show the stored rows again, the error
\* reaches the caller, and the endpoint answers 500 (and 500 only then).
C11_FailureRollsBack ==
    /\ svc_pc \in {"except", "raised"} =>
          /\ commits = 0
          /\ svc_error # ""
          /\ \A r \in 1..Len(wells_db) : wells_db[r].service_area = OldServiceArea
    /\ svc_pc = "raised" =>
          /\ rollbacks = 1
          /\ wells = wells_db
          /\ http_status \in {0, 500}
    /\ http_status = 500 => svc_pc = "raised"

\* C11 case: the write-back loop failed after the core had produced regions;
\* the call has rolled back and the endpoint has answered.
C11_Witness ==
    /\ svc_pc = "raised"
    /\ svc_error = WriteBackFailure
    /\ \E k \in DOMAIN polygon_map : polygon_map[k] # << >>
    /\ Len(all_wells_to_calculate) > 1
    /\ http_status = 500

\* The frame of call c, running or not.
FrameOf(c) == IF c = running THEN Frame ELSE frames[c]
ArgumentsOf(c) ==
    LET f == FrameOf(c)
    IN  <<f.point_ids, f.points_lon_lat, f.point_weights, f.boundary_lon_lat,
          f.resolution, f.max_iterations, f.verbose>>
Finished(c) == FrameOf(c).pc \in {"returned", "raised"}
\* what the caller of call c gets: the mapping, or the exception
OutcomeOf(c) == <<FrameOf(c).pc, FrameOf(c).error, FrameOf(c).output_polygons>>

Closed(ring) == Len(ring) > 0 /\ ring[1] = ring[Len(ring)]

\* C13: every ring the core produces is closed (first coordinate = last
\* coordinate): the planar rings after contour extraction, simplification and
\* interpolation, and the geographic rings of the returned mapping.
C13_RingsClosed ==
    /\ pc \in {"backproject", "returned"} =>
          \A j \in DOMAIN vector_boundaries :
              \A c \in 1..Len(vector_boundaries[j]) : Closed(vector_boundaries[j][c])
    /\ pc = "returned" =>
          \A j \in DOMAIN output_polygons :
              \A c \in 1..Len(output_polygons[j]) : Closed(output_polygons[j][c])

\* C13 case: a returned mapping in which two sites have rings, one of them a
\* ring of at least four different corners.
C13_Witness ==
    /\ pc = "returned"
    /\ \E j \in DOMAIN output_polygons, k \in DOMAIN output_polygons :
          /\ j # k
          /\ output_polygons[j] # << >>
          /\ output_polygons[k] # << >>
          /\ \E c \in 1..Len(output_polygons[j]) :
                Cardinality({output_polygons[j][c][m] :
                                m \in 1..Len(output_polygons[j][c])}) >= 4

\* Some site has positive weight.
SomePositiveWeight == \E k \in 1..Len(point_weights) : point_weights[k] > 0

\* An inside point held by a site of weight <= 0 that is not at that point.
PinnedSiteHolds(a) ==
    \E cell \in DOMAIN a :
        /\ At(point_weights, a[cell]) <= 0
        /\ Dist2(points_xy, boundary_xy, resolution, a[cell], cell) > 0

\* C14, as stated: while some site has positive weight, in every pass and in
\* the returned assignment a site of weight <= 0 holds no inside point, apart
\* from a point at its very position (the allocation the pinned factor cannot
\* lose, distance 0).
C14_ZeroWeightSiteExcluded ==
    (SomePositiveWeight /\ passes > 0) => ~PinnedSiteHolds(assignments)

\* C14 case against the code: the factors of the sites of positive weight have
\* fallen below the pinned one, and the site of weight <= 0 holds an inside
\* point it is not at, in the grid the call returns.
C14_PinnedSiteWins ==
    /\ pc = "returned"
    /\ SomePositiveWeight
    /\ PinnedSiteHolds(assignments)
    /\ \E cell \in mask : At(point_weights, assignment_grid[cell]) <= 0

\* C15, as stated: a call with two sites of weights [1,1] inside a square
\* boundary returns from a loop that stopped because the error was below the
\* tolerance, and each site's share of the returned grid is within the
\* tolerance of one half.
C15_ScenarioAConverges ==
    (pc = "returned" /\ point_weights = <<1, 1>> /\ Len(points_lon_lat) = 2) =>
        /\ BelowTolerance(max_error)
        /\ \A j \in {0, 1} :
              Abs(2 * GridCount(j) - Cardinality(mask)) * ToleranceDen
                  <= 2 * ToleranceNum * Cardinality(mask)

\* C15 case against the code: two sites at different positions inside the
\* square, an even number of inside points; all the passes allowed were run and
\* the call returned with the error above the tolerance.
C15_NoConvergence ==
    /\ pc = "returned"
    /\ point_weights = <<1, 1>>
    /\ points_lon_lat[1] # points_lon_lat[2]
    /\ Cardinality(mask) % 2 = 0
    /\ passes = ScenarioPasses
    /\ ~BelowTolerance(max_error)
    /\ GridCount(0) # GridCount(1)

\* C16: with a positive clamped total the target proportions are fractions in
\* [0, 1] that sum to exactly 1, the target counts sum to the number of inside
\* points, and a site's target count is 0 exactly when its weight is <= 0.
C16_ProportionsSumToOne ==
    (~LengthsDiffer /\ ClampedTotal > 0 /\ mask # {}) =>
        LET p == TargetProportions(point_weights)
            t == TargetPixelCounts(point_weights, Cardinality(mask))
            sites == Indices(point_weights)
        IN  /\ \A j \in sites : p[j].den = ClampedTotal /\ t[j].den = ClampedTotal
            /\ \A j \in sites : 0 <= p[j].num /\ p[j].num <= p[j].den
            /\ SumOver([j \in sites |-> p[j].num], sites) = ClampedTotal
            /\ SumOver([j \in sites |-> t[j].num], sites) = Cardinality(mask) * ClampedTotal
            /\ \A j \in sites : t[j].num = 0 <=> At(point_weights, j) <= 0

\* C16 case: a negative and a positive weight, several points inside, and a
\* pass has measured the counts against the targets.
C16_Witness ==
    /\ passes > 0
    /\ Cardinality(mask) > 1
    /\ \E j \in Indices(point_weights), k \in Indices(point_weights) :
          At(point_weights, j) < 0 /\ At(point_weights, k) > 0

\* C17: the text keeps the ring's coordinates in their order and is a closed
\* ring; the first point is appended exactly when first and last point differ,
\* so a closed ring is emitted as it is, and serializing the result again
\* returns the same text.
C17_ClosureIdempotent ==
    Len(wkts) > 0 =>
        LET out == wkts[1].polygon
        IN  /\ wkts[1].srid = "SRID=4326"
            /\ SubSeq(out, 1, Len(given_ring)) = given_ring
            /\ Closed(out)
            /\ Closed(given_ring) => out = given_ring
            /\ ~Closed(given_ring) => out = Append(given_ring, given_ring[1])
            /\ \A k \in 2..Len(wkts) : wkts[k] = wkts[1]
            /\ list_object = out

\* C17 case: an open ring of three different points, serialized twice.
C17_Witness ==
    /\ Len(wkts) = 2
    /\ Len(given_ring) = 3
    /\ Cardinality({given_ring[k] : k \in 1..3}) = 3
    /\ Len(wkts[1].polygon) = 4

\* requests answered with 200
Succeeded == {r \in DOMAIN requests : requests[r].status = 200}

\* C18, as stated: the stored current_load is its value before the requests
\* plus the number of requests that succeeded, in every interleaving (each
\* success adds exactly one, a failure adds nothing).
C18_NoIncrementLost == load_db = load_before + Cardinality(Succeeded)

\* C18 case against the code: two requests have succeeded and current_load
\* has grown by one.
C18_LostUpdate ==
    /\ Cardinality(Succeeded) = 2
    /\ \A r \in DOMAIN requests : requests[r].pc = "done"
    /\ load_db = load_before + 1

\* the body's score is missing (no member, or null), not numeric, or a number
\* outside [-1.0, 1.0]
ScoreRejectable ==
    /\ data.type = "object"
    /\ \/ "score" \notin data.members
       \/ data.score.type \in {"null", "array"}
       \/ data.score.type = "string" /\ data.score.text \in {"abc", "nan"}
       \/ data.score.type = "number" /\ data.score.halves \notin -2..2

\* the wells' capacity and status are as before the request, and
\* recalculate_service_areas has not been called
NothingUpdated ==
    /\ Len(wells_db) = Len(wells_before)
    /\ \A r \in DOMAIN wells_db :
          /\ wells_db[r].capacity = wells_before[r].capacity
          /\ wells_db[r].status = wells_before[r].status
    /\ svc_pc = "none"

\* C19, as stated: a request whose score is missing, not numeric or outside
\* [-1.0, 1.0] is answered with 400, and at no point of it is a capacity or a
\* status changed or a recalculation triggered.
C19_BadScoreRejected ==
    (route = "update_well_weight" /\ ScoreRejectable) =>
        /\ NothingUpdated
        /\ weight_pc = "done" => http_status = 400

\* C19 case against the code: a score that is a JSON array has been answered
\* with 500 (nothing was changed).
C19_ArrayScoreAnswered500 ==
    /\ route = "update_well_weight"
    /\ data.type = "object" /\ "score" \in data.members /\ data.score.type = "array"
    /\ weight_pc = "done"
    /\ http_status = 500
    /\ NothingUpdated

\* every site of weight <= 0 has the factor epsilon in cw
Pinned(cw) ==
    \A j \in Indices(point_weights) : At(point_weights, j) <= 0 => cw[j] = PinnedFactor

\* C20: at the start of every assignment pass the factor of every site with
\* weight <= 0 is epsilon: whenever the loop is about to run a pass, and in
\* the factors that the last pass ran with.
C20_NonPositiveSitesPinned ==
    /\ pc = "loop" => Pinned(current_weights)
    /\ (pc \in {"loop", "after_loop"} /\ passes >= 1) => Pinned(pass_weights)

\* C20 case: a pass has updated the factors (that of a site of positive
\* weight has moved away from 1), a site of weight <= 0 is among the sites,
\* and the loop is about to run the next pass.
C20_Witness ==
    /\ pc = "loop"
    /\ passes >= 1
    /\ passes < max_iterations
    /\ \E j \in Indices(point_weights) : At(point_weights, j) <= 0
    /\ \E k \in Indices(point_weights) :
          At(point_weights, k) > 0 /\ current_weights[k] # OneFactor

\* the row is a well of the area with status completed, building or broken
Participates(well) ==
    well.area_id = AreaId /\ well.status \in {"completed", "building", "broken"}

\* C21: once the arguments of the core are formed, the sites are exactly the
\* area's wells of status completed, building or broken (each once, with its
\* id and location), with weight capacity, or 0 for a broken well; and at
\* every point of the call the service_area of every other well is what it was.
C21_SitesAndFrame ==
    /\ (route = "calculate_areas" /\ svc_pc \in {"core", "commit"}) =>
          /\ Len(point_ids) = Cardinality({r \in DOMAIN wells : Participates(wells[r])})
          /\ \A r \in DOMAIN wells :
                Participates(wells[r]) =>
                    \E k \in DOMAIN point_ids :
                        /\ point_ids[k] = wells[r].id
                        /\ points_lon_lat[k] = wells[r].location
                        /\ point_weights[k] = IF wells[r].status = "broken" THEN 0
                                               ELSE wells[r].capacity
    /\ route = "calculate_areas" =>
          \A r \in DOMAIN wells :
              ~Participates(wells[r]) =>
                  /\ wells[r].service_area = OldServiceArea
                  /\ wells_db[r].service_area = OldServiceArea

\* C21 case: the call has committed new service areas for the wells that
\* take part, one of them broken, next to a well that takes no part.
C21_Witness ==
    /\ route = "calculate_areas"
    /\ svc_pc = "returned"
    /\ commits = 1
    /\ \E r \in DOMAIN wells_db : ~Participates(wells_db[r])
    /\ \E r \in DOMAIN wells_db :
          /\ wells_db[r].status = "broken"
          /\ Participates(wells_db[r])
          /\ wells_db[r].service_area # OldServiceArea

\* the capacity the well named by the request had before the request, and the
\* one that is stored now
CapacityBefore == wells_before[well_id].capacity
CapacityStored == wells_db[well_id].capacity

\* C22: once the request has committed the new capacity (the score was
\* accepted, s = score[1] / 2 in [-1, 1]), the stored capacity is the integer
\* part of c * (1 + s): an integer between 0 and 2c, equal to c when s = 0;
\* and no stored capacity is ever negative, however many requests came before.
C22_CapacityTruncatedAndBounded ==
    /\ (route = "update_well_weight" /\ weight_pc = "recalculate") =>
          /\ score[1] \in -2..2
          /\ 2 * CapacityStored <= CapacityBefore * (2 + score[1])
          /\ CapacityBefore * (2 + score[1]) < 2 * CapacityStored + 2
          /\ 0 <= CapacityStored /\ CapacityStored <= 2 * CapacityBefore
          /\ score[1] = 0 => CapacityStored = CapacityBefore
    /\ route = "update_well_weight" =>
          \A r \in DOMAIN wells_db : wells_db[r].capacity >= 0 /\ wells[r].capacity >= 0

\* C22 case: after an earlier request has changed the capacity, a request with
\* a score of -0.5 has committed half of an odd capacity, rounded towards zero.
C22_Witness ==
    /\ route = "update_well_weight"
    /\ weight_pc = "recalculate"
    /\ score = <<-1>>
    /\ CapacityBefore = 3
    /\ CapacityStored = 1
    /\ wells_before[well_id].status = "completed"

\* the request has an accepted score and has committed the well's new capacity
CapacityCommitted ==
    /\ route = "update_well_weight"
    /\ weight_pc \in {"recalculate", "done"}
    /\ svc_pc # "none"

\* C23: from the moment the recalculation is triggered by a request of score
\* -1, the well is stored with capacity 0 and status broken, and in the
\* arguments that recalculation forms the well is a site of weight 0; a
\* request of any other accepted score leaves the stored status as it was.
C23_MinusOneBreaksBeforeRecalculation ==
    /\ (CapacityCommitted /\ score = <<-2>>) =>
          /\ wells_db[well_id].capacity = 0
          /\ wells_db[well_id].status = "broken"
          /\ svc_pc \in {"core", "commit"} =>
                \E k \in DOMAIN point_ids :
                    point_ids[k] = wells_db[well_id].id /\ point_weights[k] = 0
    /\ (CapacityCommitted /\ score # <<-2>>) =>
          wells_db[well_id].status = wells_before[well_id].status

\* C23 case: a completed well of positive capacity was given the score -1, and
\* the recalculation the request triggered has formed its arguments.
C23_Witness ==
    /\ CapacityCommitted
    /\ score = <<-2>>
    /\ wells_before[well_id].status = "completed"
    /\ wells_before[well_id].capacity > 0
    /\ svc_pc = "core"
    /\ Len(point_ids) = 2

\* the scores the view accepts, as it converts them (lines 323-324)
AcceptedScores ==
    {x \in {Float(v).value : v \in {u \in ScoreValues : Float(u).raises = ""}} : InRange(x)}

\* C24, as stated: for every well whose stored capacity is 0 there is an
\* accepted score for which the view computes a positive capacity.
C24_CapacityRestorable ==
    route = "update_well_weight" =>
        \A r \in DOMAIN wells_db :
            wells_db[r].capacity = 0 =>
                \E x \in AcceptedScores : NewCapacity(wells_db[r].capacity, x) > 0

\* C24 case against the code: the well's capacity was brought to 0 by an
\* earlier request, and a request with the largest accepted score, 1.0, has
\* committed the capacity 0 again.
C24_ZeroCapacityStays ==
    /\ route = "update_well_weight"
    /\ weight_pc = "recalculate"
    /\ score = <<2>>
    /\ CapacityBefore = 0
    /\ CapacityStored = 0

\* the outermost rows and columns of the lattice
EdgeCells(res) == {cell \in Cells(res) : cell[1] \in {0, res - 1} \/ cell[2] \in {0, res - 1}}

\* the boundary's bounding box has positive extent on both axes
PositiveExtent ==
    /\ AxisMax(boundary_xy, 1) > AxisMin(boundary_xy, 1)
    /\ AxisMax(boundary_xy, 2) > AxisMin(boundary_xy, 2)

\* C25: for a boundary of positive extent on both axes, every lattice point of
\* the outermost rows and columns lies outside the boundary: none is in the
\* mask, and in the grid the solver returns none is assigned to a site.
C25_EdgeOutsideMask ==
    ("rasterize" \in work /\ PositiveExtent) =>
        /\ mask \cap EdgeCells(resolution) = {}
        /\ \A cell \in EdgeCells(resolution) :
              ~ContainsPoint(boundary_xy, resolution, CellPoint(boundary_xy, resolution, cell))
        /\ SolverReturned =>
              \A cell \in EdgeCells(resolution) : assignment_grid[cell] = Unassigned

\* C25 case: the solver has returned a grid in which a site holds a cell next
\* to the outermost row, and the outermost rows and columns are there.
C25_Witness ==
    /\ SolverReturned
    /\ PositiveExtent
    /\ resolution >= 3
    /\ \E cell \in mask : cell[1] = 1 /\ assignment_grid[cell] # Unassigned

\* f < g for the factors of a site of positive weight (both unpinned): their
\* DampingInv-th powers compared by cross-multiplication
FactorLess(f, g) == BLess(BMul(f.num, g.den), BMul(g.num, f.den))

\* the counts of the last pass, and the targets they are measured against
ActualCount(j) == PixelCounts(assignments, Len(points_xy))[j]
TargetCount(j) == TargetPixelCounts(point_weights, Cardinality(mask))[j]
BelowTarget(j) == ActualCount(j) * TargetCount(j).den < TargetCount(j).num
AboveTarget(j) == ActualCount(j) * TargetCount(j).den > TargetCount(j).num

\* a pass has ended without convergence and has updated the factors
FactorsUpdated == pc = "loop" /\ passes >= 1

\* C26, as stated: after every pass that did not converge, a site of positive
\* weight whose count was below its target has a factor no smaller than the
\* one the pass ran with, and one whose count was above its target has a
\* factor no larger.
C26_UpdateBalances ==
    FactorsUpdated =>
        \A j \in Indices(point_weights) :
            At(point_weights, j) > 0 =>
                /\ BelowTarget(j) => ~FactorLess(current_weights[j], pass_weights[j])
                /\ AboveTarget(j) => ~FactorLess(pass_weights[j], current_weights[j])

\* C26 case against the code: a site of positive weight was assigned nothing,
\* its target being positive, and the update has lowered its factor.
C26_EmptySiteLowered ==
    /\ FactorsUpdated
    /\ \E j \in Indices(point_weights) :
          /\ At(point_weights, j) > 0
          /\ ActualCount(j) = 0
          /\ BelowTarget(j)
          /\ FactorLess(current_weights[j], pass_weights[j])

\* a natural of the model that is not zero: digits in range, the top one not 0
PositiveNatural(a) ==
    /\ Len(a) >= 1
    /\ \A k \in DOMAIN a : a[k] \in 0..9999
    /\ a[Len(a)] # 0

\* every factor of cw is a positive number: a quotient of positive naturals
\* (times a power of ten)
AllPositive(cw) ==
    \A j \in Indices(point_weights) :
        PositiveNatural(cw[j].num) /\ PositiveNatural(cw[j].den) /\ cw[j].eps \in {0, 1}

ZeroIterationsCall ==
    /\ max_iterations = 0
    /\ "rasterize" \in work
    /\ mask # {}
    /\ TotalWeight(point_weights) > 0

\* C28, as stated: a call with max_iterations = 0, a non-empty mask and a
\* positive total weight runs no pass and raises nothing, and the grid its
\* solver returns has a value for every cell.
C28_ZeroIterationsReturn ==
    ZeroIterationsCall =>
        /\ passes = 0
        /\ pc # "raised" /\ error = ""
        /\ SolverReturned => DOMAIN assignment_grid = Cells(resolution)

\* C28 case against the code: such a call has ended with the exception that
\* the read of the loop variable raises after a loop of no passes.
C28_ZeroIterationsRaise ==
    /\ ZeroIterationsCall
    /\ passes = 0
    /\ pc = "raised"
    /\ error = UnboundLocalError

\* the stored capacity and status of every well are as before the request
StoredAsBefore ==
    \A r \in DOMAIN wells_db :
        /\ wells_db[r].capacity = wells_before[r].capacity
        /\ wells_db[r].status = wells_before[r].status

\* C29, as stated: whenever update_well_weight has answered with an error,
\* the stored capacity and status of the well are those before the request.
C29_ErrorChangesNothing ==
    (route = "update_well_weight" /\ weight_pc = "done" /\ http_status >= 400) =>
        StoredAsBefore

\* C29 case against the code: the recalculation raised and the request was
\* answered with 500, and the well is stored with the new capacity.
C29_FailedButStored ==
    /\ route = "update_well_weight"
    /\ weight_pc = "done"
    /\ http_status = 500
    /\ svc_pc = "raised"
    /\ wells_db[well_id].capacity # wells_before[well_id].capacity

\* every request served side by side has been answered, and with 200
AllSucceeded ==
    /\ sessions # << >>
    /\ \A s \in DOMAIN sessions : sessions[s].pc = "done" /\ sessions[s].status = 200

\* the stored service areas are those of a recalculation that read the
\* capacities and statuses stored now
StoredAreasCurrent ==
    LET call == CoreCall(wells_db)
    IN  \A k \in DOMAIN call.sites :
            wells_db[call.sites[k]].service_area = <<PolygonsOf(call)>>

\* C30, as stated: once requests for one area that were served side by side
\* have all succeeded, the stored service areas are those computed from the
\* capacities and statuses stored at that time.
C30_StoredAreasFollowStoredWeights == AllSucceeded => StoredAreasCurrent

\* C30: all requests have succeeded, and a well of the area holds the polygon
\* of a recalculation that read weights other than the stored ones.
\* The weights read by both recalculations are positive, so both calls of the
\* core divide the area between two wells.
C30_StaleAreasStored ==
    /\ AllSucceeded
    /\ \E s \in DOMAIN sessions :
          sessions[s].view = "update_well_weight" /\ sessions[s].score = <<2>>
    /\ Len(CoreCall(wells_db).sites) = 2
    /\ \A k \in 1..2 : CoreCall(wells_db).point_weights[k] > 0
    /\ \A r \in DOMAIN wells_db :
          /\ wells_db[r].service_area # Null
          /\ \A k \in 1..2 : wells_db[r].service_area[1].point_weights[k] > 0
    /\ ~StoredAreasCurrent

====
